---- MODULE Spec2Model ----
(***************************************************************************)
(* nagios_exporter: a Prometheus collector that, on every scrape, either   *)
(* queries six Nagios XI API endpoints (API mode) or runs the nagiostats   *)
(* binary (nagiostats mode), and turns the answers into samples.           *)
(*                                                                         *)
(* The model follows the released exporter (the first program of           *)
(* src/unnamed/part_002, lines 1-931).  A scrape is a sequence of steps,   *)
(* one per outbound call (HTTP GET or exec), each step holding everything  *)
(* the code does between that call and the next one.  log.Fatal is         *)
(* logrus' Fatal: it logs and calls os.Exit(1), so it ends the process.    *)
(***************************************************************************)
EXTENDS Integers, Sequences, FiniteSets, TLC

(***************************************************************************)
(* Bounds of the model.                                                    *)
(***************************************************************************)
\* concurrent collections the metrics library runs
NumScrapers == 2
\* largest number a field of an upstream answer carries
MaxNumber == 50
\* records walked in the record-by-record specification (SpecWalk)
MaxRecords == 2

Scrapers == 1..NumScrapers

(***************************************************************************)
(* State.                                                                  *)
(***************************************************************************)
VARIABLES
  proc,        \* the process: "starting", "serving", "exited" (os.Exit), "panicked"
  flags,       \* the command line, as flag.Parse left it
  e,           \* the Exporter that main registers
  configRead,  \* whether ReadConfig opened the API-key configuration file
  described,   \* the descriptors Describe sent when the exporter was registered
  xi,          \* the Nagios XI server's present answers (API mode)
  core,        \* the present output of nagiostats (nagiostats mode)
  pc,          \* per collection: the step Collect is at
  ch,          \* per collection: the samples sent on the channel so far
  reqs,        \* per collection: the HTTP GET requests issued so far
  execs,       \* per collection: the commands run so far
  in,          \* per collection: what came back from each call so far
  loc,         \* per collection: the local variables that live across calls
  logs,        \* per collection: the messages logged so far
  fail,        \* per collection: the call at which it ended the process, if any
  lastScrape,  \* what the last completed collection received and emitted
  wpc, wHosts, wServices, wHC, wSC, wch,  \* the record-by-record walk (SpecWalk)
  fn           \* a function run on its own: its arguments, position and result

vars == <<proc, flags, e, configRead, described, xi, core, pc, ch, reqs, execs,
          in, loc, logs, fail, lastScrape, wpc, wHosts, wServices, wHC, wSC, wch,
          fn>>

walkVars == <<wpc, wHosts, wServices, wHC, wSC, wch>>
progVars == <<proc, flags, e, configRead, described, xi, core, pc, ch, reqs,
              execs, in, loc, logs, fail, lastScrape>>

(***************************************************************************)
(* Program constants.                                                      *)
(***************************************************************************)
namespace == "nagios"
nagiosAPIVersion == "/nagiosxi"
apiSlug == "/api/v1"
hoststatusAPI == "/objects/hoststatus"
servicestatusAPI == "/objects/servicestatus"
systeminfoAPI == "/system/info"
systemstatusAPI == "/system/status"
systemstatusDetailAPI == "/system/statusdetail"
systemuserAPI == "/system/user"

\* prometheus.BuildFQName(namespace, "", name)
BuildFQName(name) == namespace \o "_" \o name

up == BuildFQName("up")
hostsTotal == BuildFQName("hosts_total")
hostsCheckedTotal == BuildFQName("hosts_checked_total")
hostsStatus == BuildFQName("hosts_status_total")
hostsDowntime == BuildFQName("hosts_downtime_total")
hostsProblemsAcknowledged == BuildFQName("hosts_acknowledges_total")
servicesTotal == BuildFQName("services_total")
\* Faulty variant of servicesCheckedTotal: the descriptor of the hosts, copied.
servicesCheckedTotalOfHosts == BuildFQName("hosts_checked_total")
servicesCheckedTotal == BuildFQName("services_checked_total")
servicesStatus == BuildFQName("services_status_total")
servicesDowntime == BuildFQName("services_downtime_total")
servicesProblemsAcknowledged == BuildFQName("services_acknowledges_total")
versionInfo == BuildFQName("version_info")
buildInfo == BuildFQName("build_info")
hostchecks == BuildFQName("host_checks_minutes")
servicechecks == BuildFQName("service_checks_minutes")
hostchecksPerformance == BuildFQName("host_checks_performance_seconds")
servicechecksPerformance == BuildFQName("service_checks_performance_seconds")
usersTotal == BuildFQName("users_total")
usersPrivileges == BuildFQName("users_privileges_total")
usersStatus == BuildFQName("users_status_total")

\* populated by the linker during the build; constant while the process runs
Version == "1.2.2"
BuildDate == "2023-03-01"
Commit == "abc1234"

\* the list of MRTG names handed to nagiostats -d, in order (field 0 first)
mrtgList ==
  << "NAGIOSVERSION", "NUMHOSTS", "NUMHSTACTCHK60M", "NUMHSTPSVCHK60M",
     "NUMHSTUP", "NUMHSTDOWN", "NUMHSTUNR", "NUMHSTFLAPPING", "NUMHSTDOWNTIME",
     "NUMSERVICES", "NUMSVCACTCHK60M", "NUMSVCPSVCHK60M", "NUMSVCOK",
     "NUMSVCWARN", "NUMSVCUNKN", "NUMSVCCRIT", "NUMSVCFLAPPING",
     "NUMSVCDOWNTIME", "NUMHSTACTCHK1M", "NUMHSTACTCHK5M", "NUMHSTACTCHK15M",
     "NUMHSTPSVCHK1M", "NUMHSTPSVCHK5M", "NUMHSTPSVCHK15M", "NUMSVCACTCHK1M",
     "NUMSVCACTCHK5M", "NUMSVCACTCHK15M", "NUMSVCPSVCHK1M", "NUMSVCPSVCHK5M",
     "NUMSVCPSVCHK15M", "AVGACTHSTLAT", "MINACTHSTLAT", "MAXACTHSTLAT",
     "AVGACTHSTEXT", "MINACTHSTEXT", "MAXACTHSTEXT", "AVGACTSVCLAT",
     "MINACTSVCLAT", "MAXACTSVCLAT", "AVGACTSVCEXT", "MINACTSVCEXT",
     "MAXACTSVCEXT" >>

(***************************************************************************)
(* Samples.  A sample is what MustNewConstMetric / MustNewConstHistogram   *)
(* build: the descriptor's name, the label values, and the numbers.        *)
(***************************************************************************)
MustNewConstMetric(desc, value, labels) ==
  [desc |-> desc, kind |-> "gauge", labels |-> labels, value |-> value,
   count |-> 0, buckets |-> <<>>]

\* buckets: upper bound 1, 5, 15 in this order
MustNewConstHistogram(desc, count, sum, b1, b5, b15, labels) ==
  [desc |-> desc, kind |-> "histogram", labels |-> labels, value |-> sum,
   count |-> count, buckets |-> <<b1, b5, b15>>]

Range(seq) == {seq[i] : i \in 1..Len(seq)}

(***************************************************************************)
(* Decoding.  The upstream's JSON carries numbers as strings (the          *)
(* `,string` option of the struct tags): a field is a string of decimal    *)
(* digits, some other string, or absent.                                   *)
(***************************************************************************)
Absent == "<absent>"

IsNumeral(str) == \E n \in 0..MaxNumber : ToString(n) = str

\* strconv.ParseFloat(str, 64): the number and whether parsing failed
\* (on failure the number is 0)
ParseFloat(str) ==
  IF IsNumeral(str)
    THEN [val |-> CHOOSE n \in 0..MaxNumber : ToString(n) = str, err |-> FALSE]
    ELSE [val |-> 0, err |-> TRUE]

\* Faulty variant of UnmarshalField: an absent field is a decoding error.
UnmarshalFieldRequired(tok) ==
  IF tok = Absent THEN [val |-> 0, err |-> TRUE] ELSE ParseFloat(tok)

\* json.Unmarshal of one `float64 ...,string` field: an absent field leaves
\* the zero value, a string that is no number is an error
UnmarshalField(tok) ==
  IF tok = Absent THEN [val |-> 0, err |-> FALSE] ELSE ParseFloat(tok)

(***************************************************************************)
(* The walk over the decoded host and service records                      *)
(* (QueryAPIsAndUpdateMetrics).  A record is the decoded struct; the       *)
(* counters are the function's local variables, zero when declared.        *)
(***************************************************************************)
\* Faulty variant of HostCountersZero: the host counters are not fresh locals
\* but keep a value from the collection that returned last.
HostCountersLeftOver ==
  [hostsCount |-> Len(lastScrape.ch), hostsActiveCheckCount |-> 0,
   hostsPassiveCheckCount |-> 0, hostsUpCount |-> 0, hostsDownCount |-> 0,
   hostsUnreachableCount |-> 0, hostsFlapCount |-> 0, hostsDowntimeCount |-> 0,
   hostsProblemsAcknowledgedCount |-> 0]

HostCountersZero ==
  [hostsCount |-> 0, hostsActiveCheckCount |-> 0, hostsPassiveCheckCount |-> 0,
   hostsUpCount |-> 0, hostsDownCount |-> 0, hostsUnreachableCount |-> 0,
   hostsFlapCount |-> 0, hostsDowntimeCount |-> 0,
   hostsProblemsAcknowledgedCount |-> 0]

ServiceCountersZero ==
  [servicesCount |-> 0, servicesScheduledCount |-> 0,
   servicesActiveCheckCount |-> 0, servicesPassiveCheckCount |-> 0,
   servicesOkCount |-> 0, servicesWarnCount |-> 0, servicesCriticalCount |-> 0,
   servicesUnknownCount |-> 0, servicesFlapCount |-> 0,
   servicesDowntimeCount |-> 0, servicesProblemsAcknowledgedCount |-> 0]

Inc(c, field) == [c EXCEPT ![field] = @ + 1]

\* one iteration of `for _, v := range hostStatusObject.Hoststatus`
HostStep(c, v) ==
  LET c1 == Inc(c, "hostsCount")
      c2 == IF v.CheckType = 0 THEN Inc(c1, "hostsActiveCheckCount")
                               ELSE Inc(c1, "hostsPassiveCheckCount")
      c3 == CASE v.CurrentState = 0 -> Inc(c2, "hostsUpCount")
               [] v.CurrentState = 1 -> Inc(c2, "hostsDownCount")
               [] v.CurrentState = 2 -> Inc(c2, "hostsUnreachableCount")
               [] OTHER -> c2
      c4 == IF v.IsFlapping = 1 THEN Inc(c3, "hostsFlapCount") ELSE c3
      c5 == IF v.ScheduledDowntimeDepth = 1 THEN Inc(c4, "hostsDowntimeCount")
                                            ELSE c4
  IN  IF v.ProblemHasBeenAcknowledged = 1
        THEN Inc(c5, "hostsProblemsAcknowledgedCount") ELSE c5

\* Faulty variant of ServiceStep: state 2 (critical) is counted as a warning.
ServiceStepCriticalAsWarn(c, v) ==
  LET c1 == Inc(c, "servicesCount")
      c2 == IF v.ShouldBeScheduled = 0 THEN Inc(c1, "servicesScheduledCount")
                                       ELSE c1
      c3 == IF v.CheckType = 0 THEN Inc(c2, "servicesActiveCheckCount")
                               ELSE Inc(c2, "servicesPassiveCheckCount")
      c4 == CASE v.CurrentState = 0 -> Inc(c3, "servicesOkCount")
               [] v.CurrentState = 1 -> Inc(c3, "servicesWarnCount")
               [] v.CurrentState = 2 -> Inc(c3, "servicesWarnCount")
               [] v.CurrentState = 3 -> Inc(c3, "servicesUnknownCount")
               [] OTHER -> c3
      c5 == IF v.IsFlapping = 1 THEN Inc(c4, "servicesFlapCount") ELSE c4
      c6 == IF v.ScheduledDowntimeDepth = 1
              THEN Inc(c5, "servicesDowntimeCount") ELSE c5
  IN  IF v.ProblemHasBeenAcknowledged = 1
        THEN Inc(c6, "servicesProblemsAcknowledgedCount") ELSE c6

\* one iteration of `for _, v := range serviceStatusObject.Servicestatus`
ServiceStep(c, v) ==
  LET c1 == Inc(c, "servicesCount")
      c2 == IF v.ShouldBeScheduled = 0 THEN Inc(c1, "servicesScheduledCount")
                                       ELSE c1
      c3 == IF v.CheckType = 0 THEN Inc(c2, "servicesActiveCheckCount")
                               ELSE Inc(c2, "servicesPassiveCheckCount")
      c4 == CASE v.CurrentState = 0 -> Inc(c3, "servicesOkCount")
               [] v.CurrentState = 1 -> Inc(c3, "servicesWarnCount")
               [] v.CurrentState = 2 -> Inc(c3, "servicesCriticalCount")
               [] v.CurrentState = 3 -> Inc(c3, "servicesUnknownCount")
               [] OTHER -> c3
      c5 == IF v.IsFlapping = 1 THEN Inc(c4, "servicesFlapCount") ELSE c4
      c6 == IF v.ScheduledDowntimeDepth = 1
              THEN Inc(c5, "servicesDowntimeCount") ELSE c5
  IN  IF v.ProblemHasBeenAcknowledged = 1
        THEN Inc(c6, "servicesProblemsAcknowledgedCount") ELSE c6

RECURSIVE HostWalk(_, _)
HostWalk(c, records) ==
  IF records = <<>> THEN c
  ELSE HostWalk(HostStep(c, Head(records)), Tail(records))

RECURSIVE ServiceWalk(_, _)
ServiceWalk(c, records) ==
  IF records = <<>> THEN c
  ELSE ServiceWalk(ServiceStep(c, Head(records)), Tail(records))

\* the walk over userStatusObject.Userstatus
RECURSIVE UserWalk(_, _)
UserWalk(c, records) ==
  IF records = <<>> THEN c
  ELSE LET v == Head(records)
           c1 == IF v.Admin = 1 THEN Inc(c, "usersAdminCount")
                                ELSE Inc(c, "usersRegularCount")
           c2 == IF v.Enabled = 1 THEN Inc(c1, "usersEnabledCount")
                                  ELSE Inc(c1, "usersDisabledCount")
       IN  UserWalk(c2, Tail(records))

UserCountersZero ==
  [usersAdminCount |-> 0, usersRegularCount |-> 0, usersEnabledCount |-> 0,
   usersDisabledCount |-> 0]

(***************************************************************************)
(* UpdateCommonMetrics.  The 41 float64 arguments are positional: `a` is   *)
(* the tuple of the call's arguments in the order the caller wrote them,   *)
(* and the names are bound in the order of the signature.  The result is   *)
(* the samples in the order they are sent on the channel.                  *)
(***************************************************************************)
UpdateCommonMetrics(a) ==
  LET hostsCount == a[1]
      hostsActiveCheckCount == a[2]
      hostsPassiveCheckCount == a[3]
      hostsUpCount == a[4]
      hostsDownCount == a[5]
      hostsUnreachableCount == a[6]
      hostsFlapCount == a[7]
      hostsDowntimeCount == a[8]
      servicesCount == a[9]
      servicesActiveCheckCount == a[10]
      servicesPassiveCheckCount == a[11]
      servicesOkCount == a[12]
      servicesWarnCount == a[13]
      servicesCriticalCount == a[14]
      servicesUnknownCount == a[15]
      servicesFlapCount == a[16]
      servicesDowntimeCount == a[17]
      activehostchecks1m == a[18]
      activehostchecks5m == a[19]
      activehostchecks15m == a[20]
      passivehostchecks1m == a[21]
      passivehostchecks5m == a[22]
      passivehostchecks15m == a[23]
      activeservicechecks1m == a[24]
      activeservicechecks5m == a[25]
      activeservicechecks15m == a[26]
      passiveservicechecks1m == a[27]
      passiveservicechecks5m == a[28]
      passiveservicechecks15m == a[29]
      activehostchecklatencyavg == a[30]
      activehostchecklatencymin == a[31]
      activehostchecklatencymax == a[32]
      activehostcheckexecutionavg == a[33]
      activehostcheckexecutionmin == a[34]
      activehostcheckexecutionmax == a[35]
      activeservicechecklatencyavg == a[36]
      activeservicechecklatencymin == a[37]
      activeservicechecklatencymax == a[38]
      activeservicecheckexecutionavg == a[39]
      activeservicecheckexecutionmin == a[40]
      activeservicecheckexecutionmax == a[41]
      activeHostCheckSum ==
        activehostchecks1m + activehostchecks5m + activehostchecks15m
      passiveHostCheckSum ==
        passivehostchecks1m + passivehostchecks5m + passivehostchecks15m
      activeserviceCheckSum ==
        activeservicechecks1m + activeservicechecks5m + activeservicechecks15m
      passiveserviceCheckSum ==
        passiveservicechecks1m + passiveservicechecks5m + passiveservicechecks15m
  IN
  << MustNewConstMetric(buildInfo, 1, <<Version, BuildDate, Commit>>),
     MustNewConstMetric(hostsTotal, hostsCount, <<>>),
     MustNewConstMetric(hostsCheckedTotal, hostsActiveCheckCount, <<"active">>),
     MustNewConstMetric(hostsCheckedTotal, hostsPassiveCheckCount, <<"passive">>),
     MustNewConstMetric(hostsStatus, hostsUpCount, <<"up">>),
     MustNewConstMetric(hostsStatus, hostsDownCount, <<"down">>),
     MustNewConstMetric(hostsStatus, hostsUnreachableCount, <<"unreachable">>),
     MustNewConstMetric(hostsStatus, hostsFlapCount, <<"flapping">>),
     MustNewConstMetric(hostsDowntime, hostsDowntimeCount, <<>>),
     MustNewConstMetric(servicesTotal, servicesCount, <<>>),
     MustNewConstMetric(servicesCheckedTotal, servicesActiveCheckCount, <<"active">>),
     MustNewConstMetric(servicesCheckedTotal, servicesPassiveCheckCount, <<"passive">>),
     MustNewConstMetric(servicesStatus, servicesOkCount, <<"ok">>),
     MustNewConstMetric(servicesStatus, servicesWarnCount, <<"warn">>),
     MustNewConstMetric(servicesStatus, servicesCriticalCount, <<"critical">>),
     MustNewConstMetric(servicesStatus, servicesUnknownCount, <<"unknown">>),
     MustNewConstMetric(servicesStatus, servicesFlapCount, <<"flapping">>),
     MustNewConstMetric(servicesDowntime, servicesDowntimeCount, <<>>),
     MustNewConstHistogram(hostchecks, activeHostCheckSum, activeHostCheckSum,
       activehostchecks1m, activehostchecks5m, activehostchecks15m, <<"active">>),
     MustNewConstHistogram(hostchecks, passiveHostCheckSum, passiveHostCheckSum,
       passivehostchecks1m, passivehostchecks5m, passivehostchecks15m, <<"passive">>),
     MustNewConstHistogram(servicechecks, activeserviceCheckSum, activeserviceCheckSum,
       activeservicechecks1m, activeservicechecks5m, activeservicechecks15m, <<"active">>),
     MustNewConstHistogram(servicechecks, passiveserviceCheckSum, passiveserviceCheckSum,
       passiveservicechecks1m, passiveservicechecks5m, passiveservicechecks15m, <<"passive">>),
     MustNewConstMetric(hostchecksPerformance, activehostchecklatencyavg, <<"active", "latency", "avg">>),
     MustNewConstMetric(hostchecksPerformance, activehostchecklatencymin, <<"active", "latency", "min">>),
     MustNewConstMetric(hostchecksPerformance, activehostchecklatencymax, <<"active", "latency", "max">>),
     MustNewConstMetric(hostchecksPerformance, activehostcheckexecutionavg, <<"active", "execution", "avg">>),
     MustNewConstMetric(hostchecksPerformance, activehostcheckexecutionmin, <<"active", "execution", "min">>),
     MustNewConstMetric(hostchecksPerformance, activehostcheckexecutionmax, <<"active", "execution", "max">>),
     MustNewConstMetric(servicechecksPerformance, activeservicechecklatencyavg, <<"active", "latency", "avg">>),
     MustNewConstMetric(servicechecksPerformance, activeservicechecklatencymin, <<"active", "latency", "min">>),
     MustNewConstMetric(servicechecksPerformance, activeservicechecklatencymax, <<"active", "latency", "max">>),
     MustNewConstMetric(servicechecksPerformance, activeservicecheckexecutionavg, <<"active", "execution", "avg">>),
     MustNewConstMetric(servicechecksPerformance, activeservicecheckexecutionmin, <<"active", "execution", "min">>),
     MustNewConstMetric(servicechecksPerformance, activeservicecheckexecutionmax, <<"active", "execution", "max">>) >>

\* the argument list of the call in QueryAPIsAndUpdateMetrics: hc, sc the
\* counters of the two walks, d the decoded systemStatusDetail.Nagioscore
APICallArguments(hc, sc, d) ==
  << hc.hostsCount, hc.hostsActiveCheckCount, hc.hostsPassiveCheckCount,
     hc.hostsUpCount, hc.hostsDownCount, hc.hostsUnreachableCount,
     hc.hostsFlapCount, hc.hostsDowntimeCount,
     sc.servicesCount, sc.servicesActiveCheckCount, sc.servicesPassiveCheckCount,
     sc.servicesOkCount, sc.servicesWarnCount, sc.servicesCriticalCount,
     sc.servicesUnknownCount, sc.servicesFlapCount, sc.servicesDowntimeCount,
     d.Activehostchecks.Val1, d.Activehostchecks.Val5, d.Activehostchecks.Val15,
     d.Passivehostchecks.Val1, d.Passivehostchecks.Val5, d.Passivehostchecks.Val15,
     d.Activeservicechecks.Val1, d.Activeservicechecks.Val5, d.Activeservicechecks.Val15,
     d.Passiveservicechecks.Val1, d.Passiveservicechecks.Val5, d.Passiveservicechecks.Val15,
     d.Activehostcheckperf.AvgLatency, d.Activehostcheckperf.MinLatency,
     d.Activehostcheckperf.MaxLatency, d.Activehostcheckperf.AvgExecutionTime,
     d.Activehostcheckperf.MinExecutionTime, d.Activehostcheckperf.MaxExecutionTime,
     d.Activeservicecheckperf.AvgLatency, d.Activeservicecheckperf.MinLatency,
     d.Activeservicecheckperf.MaxLatency, d.Activeservicecheckperf.AvgExecutionTime,
     d.Activeservicecheckperf.MinExecutionTime, d.Activeservicecheckperf.MaxExecutionTime >>

(***************************************************************************)
(* The upstream.  In API mode it is a Nagios XI server whose six endpoints *)
(* answer with JSON objects; in nagiostats mode it is a Nagios Core        *)
(* installation whose nagiostats binary prints comma separated fields.     *)
(* The sets below are the answers the model's upstream can give.           *)
(***************************************************************************)
HostJSON(ct, cs, fl, dd, ack) ==
  [check_type |-> ct, current_state |-> cs, is_flapping |-> fl,
   scheduled_downtime_depth |-> dd, problem_has_been_acknowledged |-> ack]

ServiceJSON(hbc, sbs, ct, cs, fl, dd, ack) ==
  [has_been_checked |-> hbc, should_be_scheduled |-> sbs, check_type |-> ct,
   current_state |-> cs, is_flapping |-> fl, scheduled_downtime_depth |-> dd,
   problem_has_been_acknowledged |-> ack]

ChecksJSON(b) ==
  [val1 |-> ToString(b), val5 |-> ToString(b + 1), val15 |-> ToString(b + 2)]

PerfJSON(b) ==
  [avg_latency |-> ToString(b), min_latency |-> ToString(b + 1),
   max_latency |-> ToString(b + 2), avg_execution_time |-> ToString(b + 3),
   min_execution_time |-> ToString(b + 4), max_execution_time |-> ToString(b + 5)]

\* a statusdetail answer whose 24 numbers are b, b+1, ..., b+23
DetailJSON(b) ==
  [nagioscore |->
    [activehostchecks |-> ChecksJSON(b), passivehostchecks |-> ChecksJSON(b + 3),
     activeservicechecks |-> ChecksJSON(b + 6),
     passiveservicechecks |-> ChecksJSON(b + 9),
     activehostcheckperf |-> PerfJSON(b + 12),
     activeservicecheckperf |-> PerfJSON(b + 18)]]

RunningAnswers == <<"1", "0", Absent>>

InfoAnswers == << [version |-> "5.8.10"], [version |-> "5.9.3"] >>

HostAnswers ==
  << [hoststatus |->
        << HostJSON("0", "0", "0", "0", "0"), HostJSON("1", "1", "1", "1", "1"),
           HostJSON("0", "2", "0", "2", "0") >>],
     [hoststatus |->
        << HostJSON("1", "0", "1", "0", Absent), HostJSON("0", "3", "0", "1", "1") >>] >>

ServiceAnswers ==
  << [servicestatus |->
        << ServiceJSON("1", "1", "0", "0", "0", "0", "0"),
           ServiceJSON("1", "1", "1", "1", "1", "1", "1"),
           ServiceJSON("0", "0", "0", "2", "0", "2", "0"),
           ServiceJSON("1", "1", "0", "2", "0", "0", "1") >>],
     [servicestatus |->
        << ServiceJSON("1", "1", "1", "3", "1", "0", "0"),
           ServiceJSON("1", "0", "0", "4", "0", "1", "1") >>] >>

DetailAnswers == << DetailJSON(1), DetailJSON(20) >>

UserAnswers ==
  << [records |-> 2,
      users |-> << [admin |-> "1", enabled |-> "1"], [admin |-> "0", enabled |-> "0"] >>],
     [records |-> 3,
      users |-> << [admin |-> "0", enabled |-> "1"], [admin |-> "1", enabled |-> "1"],
                   [admin |-> "1", enabled |-> "0"] >>] >>

\* what the six endpoints of one Nagios XI server answer
XIWorld(r, a, b) ==
  [status |-> [is_currently_running |-> RunningAnswers[r]],
   info |-> InfoAnswers[a], hoststatus |-> HostAnswers[a],
   servicestatus |-> ServiceAnswers[b], statusdetail |-> DetailAnswers[a],
   user |-> UserAnswers[b]]

XIWorlds == {XIWorld(r, a, b) : r \in 1..3, a \in 1..2, b \in 1..2}

\* nagiostats -m -D , -d <mrtgList> prints one value per requested name, each
\* followed by the delimiter, and a final newline: split at the commas this
\* is the 42 values and a last field holding the newline.  Field 0 is the
\* version; the other 41 are numbers, here b+1 .. b+41 so that no two
\* fields of one output are equal.
StatsFields(version, b, n) ==
  [i \in 1..n |-> IF i = 1 THEN version ELSE ToString(b + i - 1)]

StatsOutputs ==
  { StatsFields("4.4.6", 0, 42) \o <<"\n">>, StatsFields("3.5.1", 5, 42) \o <<"\n">>,
    StatsFields("4.4.6", 3, 42),
    [StatsFields("4.4.6", 0, 42) EXCEPT ![16] = "n/a"] \o <<"\n">>,
    StatsFields("4.4.6", 0, 9), <<"\n">> }

(***************************************************************************)
(* json.Unmarshal into the structs of the program.  `got` is what came     *)
(* back: "ok" (the endpoint's JSON) or "garbage" (a body that is no JSON,  *)
(* such as an HTML error page or an empty body).  The result is the        *)
(* decoded struct and whether Unmarshal returned an error.                 *)
(***************************************************************************)
UnmarshalSystemStatus(got, j) ==
  IF got = "garbage" THEN [err |-> TRUE, Running |-> 0]
  ELSE LET f == UnmarshalField(j.is_currently_running)
       IN  [err |-> f.err, Running |-> f.val]

UnmarshalSystemInfo(got, j) ==
  IF got = "garbage" THEN [err |-> TRUE, Version |-> ""]
  ELSE [err |-> FALSE, Version |-> j.version]

HostFields ==
  {"check_type", "current_state", "is_flapping", "scheduled_downtime_depth",
   "problem_has_been_acknowledged"}

ServiceFields ==
  {"has_been_checked", "should_be_scheduled", "check_type", "current_state",
   "is_flapping", "scheduled_downtime_depth", "problem_has_been_acknowledged"}

DecodeHost(j) ==
  [CheckType |-> UnmarshalField(j.check_type).val,
   CurrentState |-> UnmarshalField(j.current_state).val,
   IsFlapping |-> UnmarshalField(j.is_flapping).val,
   ScheduledDowntimeDepth |-> UnmarshalField(j.scheduled_downtime_depth).val,
   ProblemHasBeenAcknowledged |-> UnmarshalField(j.problem_has_been_acknowledged).val]

DecodeService(j) ==
  [HasBeenChecked |-> UnmarshalField(j.has_been_checked).val,
   ShouldBeScheduled |-> UnmarshalField(j.should_be_scheduled).val,
   CheckType |-> UnmarshalField(j.check_type).val,
   CurrentState |-> UnmarshalField(j.current_state).val,
   IsFlapping |-> UnmarshalField(j.is_flapping).val,
   ScheduledDowntimeDepth |-> UnmarshalField(j.scheduled_downtime_depth).val,
   ProblemHasBeenAcknowledged |-> UnmarshalField(j.problem_has_been_acknowledged).val]

UnmarshalHostStatus(got, j) ==
  IF got = "garbage" THEN [err |-> TRUE, Hoststatus |-> <<>>]
  ELSE [err |-> \E i \in 1..Len(j.hoststatus) : \E f \in HostFields :
                   UnmarshalField(j.hoststatus[i][f]).err,
        Hoststatus |-> [i \in 1..Len(j.hoststatus) |-> DecodeHost(j.hoststatus[i])]]

UnmarshalServiceStatus(got, j) ==
  IF got = "garbage" THEN [err |-> TRUE, Servicestatus |-> <<>>]
  ELSE [err |-> \E i \in 1..Len(j.servicestatus) : \E f \in ServiceFields :
                   UnmarshalField(j.servicestatus[i][f]).err,
        Servicestatus |->
          [i \in 1..Len(j.servicestatus) |-> DecodeService(j.servicestatus[i])]]

DecodeChecks(j) ==
  [Val1 |-> UnmarshalField(j.val1).val, Val5 |-> UnmarshalField(j.val5).val,
   Val15 |-> UnmarshalField(j.val15).val]

DecodePerf(j) ==
  [AvgLatency |-> UnmarshalField(j.avg_latency).val,
   MinLatency |-> UnmarshalField(j.min_latency).val,
   MaxLatency |-> UnmarshalField(j.max_latency).val,
   AvgExecutionTime |-> UnmarshalField(j.avg_execution_time).val,
   MinExecutionTime |-> UnmarshalField(j.min_execution_time).val,
   MaxExecutionTime |-> UnmarshalField(j.max_execution_time).val]

DecodeNagioscore(j) ==
  [Activehostchecks |-> DecodeChecks(j.activehostchecks),
   Passivehostchecks |-> DecodeChecks(j.passivehostchecks),
   Activeservicechecks |-> DecodeChecks(j.activeservicechecks),
   Passiveservicechecks |-> DecodeChecks(j.passiveservicechecks),
   Activehostcheckperf |-> DecodePerf(j.activehostcheckperf),
   Activeservicecheckperf |-> DecodePerf(j.activeservicecheckperf)]

\* the zero value of systemStatusDetail.Nagioscore
NagioscoreZero ==
  LET z == [Val1 |-> 0, Val5 |-> 0, Val15 |-> 0]
      p == [AvgLatency |-> 0, MinLatency |-> 0, MaxLatency |-> 0,
            AvgExecutionTime |-> 0, MinExecutionTime |-> 0, MaxExecutionTime |-> 0]
  IN  [Activehostchecks |-> z, Passivehostchecks |-> z, Activeservicechecks |-> z,
       Passiveservicechecks |-> z, Activehostcheckperf |-> p,
       Activeservicecheckperf |-> p]

DetailErr(j) ==
  \/ \E g \in {"activehostchecks", "passivehostchecks", "activeservicechecks",
               "passiveservicechecks"} :
       \E f \in {"val1", "val5", "val15"} : UnmarshalField(j[g][f]).err
  \/ \E g \in {"activehostcheckperf", "activeservicecheckperf"} :
       \E f \in {"avg_latency", "min_latency", "max_latency", "avg_execution_time",
                 "min_execution_time", "max_execution_time"} :
          UnmarshalField(j[g][f]).err

UnmarshalSystemStatusDetail(got, j) ==
  IF got = "garbage" THEN [err |-> TRUE, Nagioscore |-> NagioscoreZero]
  ELSE [err |-> DetailErr(j.nagioscore), Nagioscore |-> DecodeNagioscore(j.nagioscore)]

UnmarshalUserStatus(got, j) ==
  IF got = "garbage" THEN [err |-> TRUE, Recordcount |-> 0, Userstatus |-> <<>>]
  ELSE [err |-> \E i \in 1..Len(j.users) : \E f \in {"admin", "enabled"} :
                   UnmarshalField(j.users[i][f]).err,
        Recordcount |-> j.records,
        Userstatus |-> [i \in 1..Len(j.users) |->
                          [Admin |-> UnmarshalField(j.users[i].admin).val,
                           Enabled |-> UnmarshalField(j.users[i].enabled).val]]]

\* flag values of the model's command lines
NagiostatsBinary == "/usr/local/nagios/bin/nagiostats"
GoodAddress == "http://localhost"
\* an address url.Parse rejects (missing ']' in host)
BadAddress == "http://[::1"
ConfiguredAPIKey == "s3cr3t"

\* http.NewRequest fails exactly when the URL does not parse
NewRequestFails(endpoint) == endpoint = BadAddress \o nagiosAPIVersion \o apiSlug

NoExporter ==
  [nagiosEndpoint |-> "", nagiosAPIKey |-> "", sslVerify |-> FALSE,
   nagiosAPITimeout |-> 0, nagiostatsPath |-> "", nagiosconfigPath |-> ""]

NewExporter(nagiosEndpoint, nagiosAPIKey, sslVerify, nagiosAPITimeout, nagiostatsPath, nagiosconfigPath) ==
  [nagiosEndpoint |-> nagiosEndpoint, nagiosAPIKey |-> nagiosAPIKey,
   sslVerify |-> sslVerify, nagiosAPITimeout |-> nagiosAPITimeout,
   nagiostatsPath |-> nagiostatsPath, nagiosconfigPath |-> nagiosconfigPath]

\* Faulty variant of Describe: the descriptors of API mode are sent in both
\* modes.
DescribeEveryMode(x) ==
  {up, hostsTotal, hostsStatus, hostsDowntime, hostsProblemsAcknowledged,
   hostsCheckedTotal, servicesTotal, servicesStatus, servicesDowntime,
   servicesProblemsAcknowledged, servicesCheckedTotal, versionInfo, buildInfo,
   hostchecks, servicechecks, hostchecksPerformance, servicechecksPerformance,
   usersTotal, usersPrivileges, usersStatus}

\* the descriptors Describe sends, as a set
Describe(x) ==
  {up, hostsTotal, hostsStatus, hostsDowntime}
    \cup (IF x.nagiostatsPath = "" THEN {hostsProblemsAcknowledged, hostsCheckedTotal}
                                   ELSE {})
    \cup {servicesTotal, servicesStatus, servicesDowntime}
    \cup (IF x.nagiostatsPath = ""
            THEN {servicesProblemsAcknowledged, servicesCheckedTotal} ELSE {})
    \cup {versionInfo, buildInfo, hostchecks, servicechecks, hostchecksPerformance,
          servicechecksPerformance}
    \cup (IF x.nagiostatsPath = "" THEN {usersTotal, usersPrivileges, usersStatus}
                                   ELSE {})

LocZero == [hc |-> HostCountersZero, sc |-> ServiceCountersZero, d |-> NagioscoreZero]
NoFail == [at |-> "", why |-> ""]
NoScrape == [in |-> <<>>, ch |-> <<>>]
NoCall == [op |-> ""]

Init ==
  /\ lastScrape = NoScrape
  /\ proc = "starting"
  /\ flags \in
       { [statsBinary |-> sb, remoteAddress |-> ra, sslVerify |-> FALSE,
          nagiosAPITimeout |-> 5, nagiosConfigPath |-> "",
          configPath |-> "/etc/prometheus-nagios-exporter/config.toml"] :
            sb \in {"", NagiostatsBinary}, ra \in {GoodAddress, BadAddress} }
  /\ e = NoExporter
  /\ configRead = FALSE
  /\ described = {}
  /\ xi \in XIWorlds
  /\ core \in StatsOutputs
  /\ flags.statsBinary = "" => core = StatsFields("4.4.6", 0, 42) \o <<"\n">>
  /\ flags.statsBinary # "" => xi = XIWorld(1, 1, 1)
  /\ pc = [s \in Scrapers |-> "idle"]
  /\ ch = [s \in Scrapers |-> <<>>]
  /\ reqs = [s \in Scrapers |-> <<>>]
  /\ execs = [s \in Scrapers |-> <<>>]
  /\ in = [s \in Scrapers |-> <<>>]
  /\ loc = [s \in Scrapers |-> LocZero]
  /\ logs = [s \in Scrapers |-> {}]
  /\ fail = [s \in Scrapers |-> NoFail]
  /\ wpc = "off" /\ wHosts = <<>> /\ wServices = <<>>
  /\ wHC = HostCountersZero /\ wSC = ServiceCountersZero /\ wch = <<>>
  /\ fn = NoCall

(***************************************************************************)
(* main: reads the configuration file in API mode only, builds the         *)
(* exporter from the flags and registers it (the registry calls Describe). *)
(* ReadConfig ends the process when the file cannot be decoded.            *)
(***************************************************************************)
Main ==
  /\ proc = "starting"
  /\ \E fileOK \in BOOLEAN :
       LET api == flags.statsBinary = ""
           apiKey == IF api THEN ConfiguredAPIKey ELSE ""
           nagiosURL == IF api THEN flags.remoteAddress \o nagiosAPIVersion \o apiSlug
                               ELSE ""
           x == NewExporter(nagiosURL, apiKey, flags.sslVerify,
                            flags.nagiosAPITimeout, flags.statsBinary,
                            flags.nagiosConfigPath)
       IN  /\ configRead' = api
           /\ IF api /\ ~fileOK
                THEN /\ proc' = "exited"
                     /\ UNCHANGED <<e, described>>
                ELSE /\ proc' = "serving"
                     /\ e' = x
                     /\ described' = Describe(x)
  /\ UNCHANGED <<flags, xi, core, pc, ch, reqs, execs, in, loc, logs, fail,
                 lastScrape>>
  /\ UNCHANGED <<walkVars, fn>>

(***************************************************************************)
(* One outbound call of a collection and what follows it up to the next    *)
(* call.  A step's result r says how it ended ("ok", "fatal" for           *)
(* log.Fatal, "panic" for a run-time panic in the collecting goroutine,    *)
(* which nothing recovers), the samples it sent before that, the messages  *)
(* it logged and, when it ended "ok", the next step and the locals.  A     *)
(* step that ends "blocked" leaves the goroutine inside client.Do, which   *)
(* never returns.                                                          *)
(***************************************************************************)
\* what log.Fatal leaves of the process: logrus logs, then calls os.Exit(1)
LogFatal == "exited"

\* (the result is bound once, as a value, before its fields are read)
Step(s, call, got, body, result) ==
  \E r \in {result} :
    /\ in' = [in EXCEPT ![s] = Append(@, [call |-> call, got |-> got, body |-> body])]
    /\ ch' = [ch EXCEPT ![s] = @ \o r.emit]
    /\ logs' = [logs EXCEPT ![s] = @ \cup r.logs]
    /\ IF r.end = "ok"
         THEN /\ pc' = [pc EXCEPT ![s] = r.pc]
              /\ loc' = [loc EXCEPT ![s] = r.loc]
              /\ UNCHANGED <<proc, fail>>
         ELSE IF r.end = "blocked"
         THEN /\ pc' = [pc EXCEPT ![s] = "blocked"]
              /\ UNCHANGED <<proc, fail, loc>>
         ELSE /\ proc' = IF r.end = "fatal" THEN LogFatal ELSE "panicked"
              /\ fail' = [fail EXCEPT ![s] = [at |-> call, why |-> r.why]]
              /\ UNCHANGED <<pc, loc>>
    /\ UNCHANGED <<flags, e, configRead, described, xi, core, lastScrape>>
    /\ UNCHANGED <<walkVars, fn>>

Ended(end, why, emit, logged) ==
  [end |-> end, why |-> why, emit |-> emit, logs |-> logged, pc |-> "", loc |-> LocZero]

Continue(next, emit, logged, locals) ==
  [end |-> "ok", why |-> "", emit |-> emit, logs |-> logged, pc |-> next,
   loc |-> locals]

\* what an HTTP GET can come to: an answer with the endpoint's JSON, an
\* answer whose body is no JSON, a connection error or timeout (client.Do
\* returns an error), an error while reading the body, an upstream that
\* accepts the connection and never answers
HTTPOutcomes == {"ok", "garbage", "connerr", "readerr", "silent"}

\* http.NewRequest comes first: when it fails nothing is sent ("unsent")
PossibleOutcomes ==
  IF NewRequestFails(e.nagiosEndpoint) THEN {"unsent"} ELSE HTTPOutcomes

\* the URLs, as the code concatenates them
systemStatusURL(x) == x.nagiosEndpoint \o systemstatusAPI \o "?apikey=" \o x.nagiosAPIKey
systeminfoURL(x) == x.nagiosEndpoint \o systeminfoAPI \o "?apikey=" \o x.nagiosAPIKey
\* Faulty variant of hoststatusURL: the URL is built from systeminfoAPI.
hoststatusURLOfInfo(x) ==
  x.nagiosEndpoint \o systeminfoAPI \o "?apikey=" \o x.nagiosAPIKey

hoststatusURL(x) == x.nagiosEndpoint \o hoststatusAPI \o "?apikey=" \o x.nagiosAPIKey
servicestatusURL(x) ==
  x.nagiosEndpoint \o servicestatusAPI \o "?apikey=" \o x.nagiosAPIKey
systemStatusDetailURL(x) ==
  x.nagiosEndpoint \o systemstatusDetailAPI \o "?apikey=" \o x.nagiosAPIKey
systemUserURL(x) ==
  x.nagiosEndpoint \o systemuserAPI \o "?apikey=" \o x.nagiosAPIKey \o "&advanced=1"

\* QueryAPIs: "" when it returns the body, else how it ends the process.
\* When http.NewRequest fails the code logs a warning and goes on to
\* req.Header.Set with a nil request: a nil dereference.  When the upstream
\* stays silent client.Do returns an error once the Timeout has passed, and
\* never without one.
\* Faulty variant of ClientTimeout: the client is built without a Timeout.
ClientWithoutTimeout(x) == 0

\* `client := http.Client{Timeout: nagiosAPITimeout, ...}`, in seconds.  The
\* client applies a deadline only when Timeout > 0; zero (or less) means no
\* timeout.
ClientTimeout(x) == x.nagiosAPITimeout

QueryAPIs(got) ==
  IF got = "unsent" THEN "panic"
  ELSE IF got = "silent"
         THEN IF ClientTimeout(e) > 0 THEN "fatal" ELSE "blocked"
  ELSE IF got = "connerr" THEN "fatal"
  ELSE IF got = "readerr" THEN "fatal"
  ELSE ""

\* the GET goes out, unless NewRequest failed
Requested(s, got, url) ==
  IF got = "unsent" THEN UNCHANGED reqs
  ELSE reqs' = [reqs EXCEPT ![s] = Append(@, url)]

\* Faulty variant of JSONFailed: the decoding error is not acted upon.
JSONFailureIgnored(obj) == FALSE

\* `if jsonErr != nil { log.Fatal(jsonErr) }`
JSONFailed(obj) == obj.err

\* TestNagiosConnectivity and the part of Collect that follows it
TestNagiosConnectivityResult(got, body) ==
  LET q == QueryAPIs(got)
      systemStatusObject == UnmarshalSystemStatus(got, body)
      nagiosStatus == systemStatusObject.Running
  IN  IF q # "" THEN Ended(q, "http", <<>>, {})
      ELSE IF JSONFailed(systemStatusObject) THEN Ended("fatal", "json", <<>>, {})
      ELSE Continue("info", << MustNewConstMetric(up, nagiosStatus, <<>>) >>,
                    IF nagiosStatus = 0 THEN {"Cannot connect to Nagios endpoint"}
                                        ELSE {},
                    LocZero)

SystemInfoResult(got, body) ==
  LET q == QueryAPIs(got)
      systemInfoObject == UnmarshalSystemInfo(got, body)
  IN  IF q # "" THEN Ended(q, "http", <<>>, {})
      ELSE IF JSONFailed(systemInfoObject) THEN Ended("fatal", "json", <<>>, {})
      ELSE Continue("hoststatus",
                    << MustNewConstMetric(versionInfo, 1, <<systemInfoObject.Version>>) >>,
                    {}, LocZero)

HostStatusResult(got, body, locals) ==
  LET q == QueryAPIs(got)
      hostStatusObject == UnmarshalHostStatus(got, body)
      hc == HostWalk(HostCountersZero, hostStatusObject.Hoststatus)
  IN  IF q # "" THEN Ended(q, "http", <<>>, {})
      ELSE IF JSONFailed(hostStatusObject) THEN Ended("fatal", "json", <<>>, {})
      ELSE Continue("servicestatus",
                    << MustNewConstMetric(hostsProblemsAcknowledged,
                                          hc.hostsProblemsAcknowledgedCount, <<>>) >>,
                    {}, [locals EXCEPT !.hc = hc])

ServiceStatusResult(got, body, locals) ==
  LET q == QueryAPIs(got)
      serviceStatusObject == UnmarshalServiceStatus(got, body)
      sc == ServiceWalk(ServiceCountersZero, serviceStatusObject.Servicestatus)
  IN  IF q # "" THEN Ended(q, "http", <<>>, {})
      ELSE IF JSONFailed(serviceStatusObject) THEN Ended("fatal", "json", <<>>, {})
      ELSE Continue("statusdetail",
                    << MustNewConstMetric(servicesProblemsAcknowledged,
                                          sc.servicesProblemsAcknowledgedCount, <<>>) >>,
                    {}, [locals EXCEPT !.sc = sc])

StatusDetailResult(got, body, locals) ==
  LET q == QueryAPIs(got)
      systemStatusDetailObject == UnmarshalSystemStatusDetail(got, body)
  IN  IF q # "" THEN Ended(q, "http", <<>>, {})
      ELSE IF JSONFailed(systemStatusDetailObject) THEN Ended("fatal", "json", <<>>, {})
      ELSE Continue("user", <<>>, {},
                    [locals EXCEPT !.d = systemStatusDetailObject.Nagioscore])

UserResult(got, body, locals) ==
  LET q == QueryAPIs(got)
      userStatusObject == UnmarshalUserStatus(got, body)
      uc == UserWalk(UserCountersZero, userStatusObject.Userstatus)
  IN  IF q # "" THEN Ended(q, "http", <<>>, {})
      ELSE IF JSONFailed(userStatusObject) THEN Ended("fatal", "json", <<>>, {})
      ELSE Continue("done",
             << MustNewConstMetric(usersTotal, userStatusObject.Recordcount, <<>>),
                MustNewConstMetric(usersStatus, uc.usersEnabledCount, <<"enabled">>),
                MustNewConstMetric(usersStatus, uc.usersDisabledCount, <<"disabled">>),
                MustNewConstMetric(usersPrivileges, uc.usersAdminCount, <<"admin">>),
                MustNewConstMetric(usersPrivileges, uc.usersRegularCount, <<"user">>) >>
               \o UpdateCommonMetrics(APICallArguments(locals.hc, locals.sc, locals.d)),
             {"Endpoint scraped and metrics updated"}, locals)

\* Faulty variant of APIMode: the mode does not depend on the flag.
APIModeWhateverTheFlag == TRUE

\* Collect, API mode: the branch `e.nagiostatsPath == ""`
APIMode == e.nagiostatsPath = ""

TestNagiosConnectivity(s) ==
  /\ proc = "serving" /\ APIMode /\ pc[s] = "idle"
  /\ \E got \in PossibleOutcomes :
       /\ Requested(s, got, systemStatusURL(e))
       /\ Step(s, systemstatusAPI, got, xi.status,
               TestNagiosConnectivityResult(got, xi.status))
  /\ UNCHANGED execs

QuerySystemInfo(s) ==
  /\ proc = "serving" /\ pc[s] = "info"
  /\ \E got \in PossibleOutcomes :
       /\ Requested(s, got, systeminfoURL(e))
       /\ Step(s, systeminfoAPI, got, xi.info, SystemInfoResult(got, xi.info))
  /\ UNCHANGED execs

QueryHostStatus(s) ==
  /\ proc = "serving" /\ pc[s] = "hoststatus"
  /\ \E got \in PossibleOutcomes :
       /\ Requested(s, got, hoststatusURL(e))
       /\ Step(s, hoststatusAPI, got, xi.hoststatus,
               HostStatusResult(got, xi.hoststatus, loc[s]))
  /\ UNCHANGED execs

QueryServiceStatus(s) ==
  /\ proc = "serving" /\ pc[s] = "servicestatus"
  /\ \E got \in PossibleOutcomes :
       /\ Requested(s, got, servicestatusURL(e))
       /\ Step(s, servicestatusAPI, got, xi.servicestatus,
               ServiceStatusResult(got, xi.servicestatus, loc[s]))
  /\ UNCHANGED execs

QueryStatusDetail(s) ==
  /\ proc = "serving" /\ pc[s] = "statusdetail"
  /\ \E got \in PossibleOutcomes :
       /\ Requested(s, got, systemStatusDetailURL(e))
       /\ Step(s, systemstatusDetailAPI, got, xi.statusdetail,
               StatusDetailResult(got, xi.statusdetail, loc[s]))
  /\ UNCHANGED execs

QueryUsers(s) ==
  /\ proc = "serving" /\ pc[s] = "user"
  /\ \E got \in PossibleOutcomes :
       /\ Requested(s, got, systemUserURL(e))
       /\ Step(s, systemuserAPI, got, xi.user, UserResult(got, xi.user, loc[s]))
  /\ UNCHANGED execs

(***************************************************************************)
(* Collect, nagiostats mode: the branch `e.nagiostatsPath != ""`.          *)
(***************************************************************************)
\* what running a command can come to: exit status 0, or an error (the
\* binary is missing, not executable, or exits with a non-zero status)
ExecOutcomes == {"ok", "execerr"}

ProbeCall == "nagiostats -c"
DataCall == "nagiostats -c -m -D , -d"

Executed(s, call, argv) ==
  execs' = [execs EXCEPT ![s] = Append(@, [call |-> call, argv |-> argv])]

\* TestNagiosstatsBinary: on an error log.Fatal(err) comes first, `return 0`
\* after it
TestNagiosstatsBinary(got) ==
  IF got = "execerr" THEN [fatal |-> TRUE, status |-> 0]
                     ELSE [fatal |-> FALSE, status |-> 1]

NagiostatsProbeResult(got) ==
  LET t == TestNagiosstatsBinary(got)
      nagiosStatus == t.status
  IN  IF t.fatal THEN Ended("fatal", "exec", <<>>, {})
      ELSE Continue("nagiostats", << MustNewConstMetric(up, nagiosStatus, <<>>) >>,
                    IF nagiosStatus = 0 THEN {"Cannot execute nagiostats: "} ELSE {},
                    LocZero)

\* QueryNagiostatsAndUpdateMetrics; cmdSplice is the output split at the
\* commas and m the parsed fields: metricSlice[i] of the code is m[i + 1].
\* StatsArguments is the argument list of the call of UpdateCommonMetrics,
\* built from the variables the code assigns from metricSlice.  An index
\* past the end of metricSlice is a run-time panic.
\* Faulty variant of StatsArguments: the fields are passed in the order of
\* the MRTG list (NUMSVCUNKN before NUMSVCCRIT), not of the signature.
StatsArgumentsInListOrder(m) == [k \in 1..41 |-> m[k + 1]]

StatsArguments(m) ==
  LET metricSlice(i) == m[i + 1]
      hostsCount == metricSlice(1)
      hostsActiveCheckCount == metricSlice(2)
      hostsPassiveCheckCount == metricSlice(3)
      hostsUpCount == metricSlice(4)
      hostsDownCount == metricSlice(5)
      hostsUnreachableCount == metricSlice(6)
      hostsFlapCount == metricSlice(7)
      hostsDowntimeCount == metricSlice(8)
      servicesCount == metricSlice(9)
      servicesActiveCheckCount == metricSlice(10)
      servicesPassiveCheckCount == metricSlice(11)
      servicesOkCount == metricSlice(12)
      servicesWarnCount == metricSlice(13)
      servicesUnknownCount == metricSlice(14)
      servicesCriticalCount == metricSlice(15)
      servicesFlapCount == metricSlice(16)
      servicesDowntimeCount == metricSlice(17)
      activehostchecks1m == metricSlice(18)
      activehostchecks5m == metricSlice(19)
      activehostchecks15m == metricSlice(20)
      passivehostchecks1m == metricSlice(21)
      passivehostchecks5m == metricSlice(22)
      passivehostchecks15m == metricSlice(23)
      activeservicechecks1m == metricSlice(24)
      activeservicechecks5m == metricSlice(25)
      activeservicechecks15m == metricSlice(26)
      passiveservicechecks1m == metricSlice(27)
      passiveservicechecks5m == metricSlice(28)
      passiveservicechecks15m == metricSlice(29)
      activehostchecklatencyavg == metricSlice(30)
      activehostchecklatencymin == metricSlice(31)
      activehostchecklatencymax == metricSlice(32)
      activehostcheckexecutionavg == metricSlice(33)
      activehostcheckexecutionmin == metricSlice(34)
      activehostcheckexecutionmax == metricSlice(35)
      activeservicechecklatencyavg == metricSlice(36)
      activeservicechecklatencymin == metricSlice(37)
      activeservicechecklatencymax == metricSlice(38)
      activeservicecheckexecutionavg == metricSlice(39)
      activeservicecheckexecutionmin == metricSlice(40)
      activeservicecheckexecutionmax == metricSlice(41)
  IN
  << hostsCount, hostsActiveCheckCount, hostsPassiveCheckCount,
     hostsUpCount, hostsDownCount, hostsUnreachableCount,
     hostsFlapCount, hostsDowntimeCount,
     servicesCount, servicesActiveCheckCount, servicesPassiveCheckCount,
     servicesOkCount, servicesWarnCount, servicesCriticalCount,
     servicesUnknownCount, servicesFlapCount, servicesDowntimeCount,
     activehostchecks1m, activehostchecks5m, activehostchecks15m,
     passivehostchecks1m, passivehostchecks5m, passivehostchecks15m,
     activeservicechecks1m, activeservicechecks5m, activeservicechecks15m,
     passiveservicechecks1m, passiveservicechecks5m,
     passiveservicechecks15m,
     activehostchecklatencyavg, activehostchecklatencymin,
     activehostchecklatencymax, activehostcheckexecutionavg,
     activehostcheckexecutionmin, activehostcheckexecutionmax,
     activeservicechecklatencyavg, activeservicechecklatencymin,
     activeservicechecklatencymax, activeservicecheckexecutionavg,
     activeservicecheckexecutionmin, activeservicecheckexecutionmax >>

QueryNagiostatsResult(got, cmdSplice) ==
  LET metricSlice == [i \in 1..Len(cmdSplice) |-> ParseFloat(cmdSplice[i]).val]
      nagiosVersion == cmdSplice[1]
      first == << MustNewConstMetric(versionInfo, 1, <<nagiosVersion>>) >>
  IN  IF got = "execerr" THEN Ended("fatal", "exec", <<>>, {})
      ELSE IF Len(cmdSplice) < 42 THEN Ended("panic", "index out of range", first, {})
      ELSE Continue("done",
             first \o UpdateCommonMetrics(StatsArguments(metricSlice)),
             {"Nagiostats scraped and metrics updated"}, LocZero)

NagiostatsProbe(s) ==
  /\ proc = "serving" /\ ~APIMode /\ pc[s] = "idle"
  /\ \E got \in ExecOutcomes :
       /\ Executed(s, ProbeCall, <<e.nagiostatsPath, "-c", e.nagiosconfigPath>>)
       /\ Step(s, ProbeCall, got, <<>>, NagiostatsProbeResult(got))
  /\ UNCHANGED reqs

QueryNagiostats(s) ==
  /\ proc = "serving" /\ pc[s] = "nagiostats"
  /\ \E got \in ExecOutcomes :
       /\ Executed(s, DataCall,
            <<e.nagiostatsPath, "-c", e.nagiosconfigPath, "-m", "-D", ",", "-d">>
              \o mrtgList)
       /\ Step(s, DataCall, got, core, QueryNagiostatsResult(got, core))
  /\ UNCHANGED reqs

(***************************************************************************)
(* Collect returns: the registry has the samples, the collection's locals  *)
(* and its channel are gone.  lastScrape keeps what it received and sent.  *)
(***************************************************************************)
CollectReturn(s) ==
  /\ proc = "serving" /\ pc[s] = "done"
  /\ lastScrape' = [in |-> in[s], ch |-> ch[s]]
  /\ pc' = [pc EXCEPT ![s] = "idle"]
  /\ ch' = [ch EXCEPT ![s] = <<>>]
  /\ reqs' = [reqs EXCEPT ![s] = <<>>]
  /\ execs' = [execs EXCEPT ![s] = <<>>]
  /\ in' = [in EXCEPT ![s] = <<>>]
  /\ loc' = [loc EXCEPT ![s] = LocZero]
  /\ logs' = [logs EXCEPT ![s] = {}]
  /\ UNCHANGED <<proc, flags, e, configRead, described, xi, core, fail>>
  /\ UNCHANGED <<walkVars, fn>>

\* the upstream's state changes between scrapes
UpstreamChange ==
  /\ proc = "serving"
  /\ \A s \in Scrapers : pc[s] = "idle"
  /\ IF APIMode THEN /\ xi' \in XIWorlds \ {xi}
                     /\ UNCHANGED core
                ELSE /\ core' \in StatsOutputs \ {core}
                     /\ UNCHANGED xi
  /\ UNCHANGED <<proc, flags, e, configRead, described, pc, ch, reqs, execs, in,
                 loc, logs, fail, lastScrape>>
  /\ UNCHANGED <<walkVars, fn>>

Next ==
  \/ Main
  \/ UpstreamChange
  \/ \E s \in Scrapers :
       \/ TestNagiosConnectivity(s)
       \/ QuerySystemInfo(s)
       \/ QueryHostStatus(s)
       \/ QueryServiceStatus(s)
       \/ QueryStatusDetail(s)
       \/ QueryUsers(s)
       \/ NagiostatsProbe(s)
       \/ QueryNagiostats(s)
       \/ CollectReturn(s)

Spec == Init /\ [][Next]_vars

(***************************************************************************)
(* SpecWalk: the two loops of QueryAPIsAndUpdateMetrics taken one record   *)
(* at a time, over every list of decoded records up to MaxRecords records  *)
(* in all, followed by the emission of the counters.  The process is in    *)
(* API mode with its exporter registered; the other endpoints answer with  *)
(* empty objects (statusdetail decodes to the zero value).                 *)
(***************************************************************************)
HostRecordsAll ==
  [CheckType : {0, 1}, CurrentState : {0, 1, 2, 3}, IsFlapping : {0, 1},
   ScheduledDowntimeDepth : {0, 1, 2}, ProblemHasBeenAcknowledged : {0, 1}]

ServiceRecordsAll ==
  [HasBeenChecked : {1}, ShouldBeScheduled : {0, 1}, CheckType : {0, 1},
   CurrentState : {0, 1, 2, 3}, IsFlapping : {0, 1},
   ScheduledDowntimeDepth : {0, 1, 2}, ProblemHasBeenAcknowledged : {0, 1}]

Differing(v, w) == Cardinality({f \in DOMAIN v : v[f] # w[f]})

\* the records walked: every value of every field, and every pair of values
\* of two fields, on top of an active, up/ok, quiet record
HostRecords ==
  {v \in HostRecordsAll :
     Differing(v, [CheckType |-> 0, CurrentState |-> 0, IsFlapping |-> 0,
                   ScheduledDowntimeDepth |-> 0,
                   ProblemHasBeenAcknowledged |-> 0]) <= 2}

ServiceRecords ==
  {v \in ServiceRecordsAll :
     Differing(v, [HasBeenChecked |-> 1, ShouldBeScheduled |-> 1, CheckType |-> 0,
                   CurrentState |-> 0, IsFlapping |-> 0,
                   ScheduledDowntimeDepth |-> 0,
                   ProblemHasBeenAcknowledged |-> 0]) <= 2}

InitWalk ==
  /\ lastScrape = NoScrape
  /\ proc = "serving"
  /\ flags = [statsBinary |-> "", remoteAddress |-> GoodAddress, sslVerify |-> FALSE,
              nagiosAPITimeout |-> 5, nagiosConfigPath |-> "",
              configPath |-> "/etc/prometheus-nagios-exporter/config.toml"]
  /\ e = NewExporter(GoodAddress \o nagiosAPIVersion \o apiSlug, ConfiguredAPIKey,
                     FALSE, 5, "", "")
  /\ configRead = TRUE
  /\ described = Describe(e)
  /\ xi = XIWorld(1, 1, 1)
  /\ core = <<"\n">>
  /\ pc = [s \in Scrapers |-> "idle"]
  /\ ch = [s \in Scrapers |-> <<>>]
  /\ reqs = [s \in Scrapers |-> <<>>]
  /\ execs = [s \in Scrapers |-> <<>>]
  /\ in = [s \in Scrapers |-> <<>>]
  /\ loc = [s \in Scrapers |-> LocZero]
  /\ logs = [s \in Scrapers |-> {}]
  /\ fail = [s \in Scrapers |-> NoFail]
  /\ wpc = "hosts" /\ wHosts = <<>> /\ wServices = <<>>
  /\ wHC = HostCountersZero /\ wSC = ServiceCountersZero /\ wch = <<>>
  /\ fn = NoCall

WalkHost ==
  /\ wpc = "hosts"
  /\ Len(wHosts) < MaxRecords
  /\ \E v \in HostRecords :
       /\ wHosts' = Append(wHosts, v)
       /\ wHC' = HostStep(wHC, v)
  /\ UNCHANGED <<wpc, wServices, wSC, wch>>
  /\ UNCHANGED <<progVars, fn>>

\* the host loop ends; the acknowledged-hosts sample is sent
WalkHostsEnd ==
  /\ wpc = "hosts"
  /\ wpc' = "services"
  /\ wch' = << MustNewConstMetric(hostsProblemsAcknowledged,
                                  wHC.hostsProblemsAcknowledgedCount, <<>>) >>
  /\ UNCHANGED <<wHosts, wServices, wHC, wSC>>
  /\ UNCHANGED <<progVars, fn>>

WalkService ==
  /\ wpc = "services"
  /\ Len(wHosts) + Len(wServices) < MaxRecords
  /\ \E v \in ServiceRecords :
       /\ wServices' = Append(wServices, v)
       /\ wSC' = ServiceStep(wSC, v)
  /\ UNCHANGED <<wpc, wHosts, wHC, wch>>
  /\ UNCHANGED <<progVars, fn>>

\* the service loop ends; the remaining samples are sent
WalkEmit ==
  /\ wpc = "services"
  /\ wpc' = "done"
  /\ wch' = wch
       \o << MustNewConstMetric(servicesProblemsAcknowledged,
                                wSC.servicesProblemsAcknowledgedCount, <<>>) >>
       \o UpdateCommonMetrics(APICallArguments(wHC, wSC, NagioscoreZero))
  /\ UNCHANGED <<wHosts, wServices, wHC, wSC>>
  /\ UNCHANGED <<progVars, fn>>

NextWalk == WalkHost \/ WalkHostsEnd \/ WalkService \/ WalkEmit

SpecWalk == InitWalk /\ [][NextWalk]_vars

(***************************************************************************)
(* Properties.                                                             *)
(***************************************************************************)
SamplesOf(c, desc, labels) == {x \in Range(c) : x.desc = desc /\ x.labels = labels}

\* c holds the sample (desc, labels), and only with the value n
Only(c, desc, labels, n) ==
  /\ SamplesOf(c, desc, labels) # {}
  /\ \A x \in SamplesOf(c, desc, labels) : x.value = n

\* a sample's name and label values; the version label is the upstream's
Key(x) == <<x.desc, IF x.desc = "nagios_version_info" THEN <<"*">> ELSE x.labels>>

Keys(c) == {Key(x) : x \in Range(c)}

\* the samples of a complete scrape in API mode
CompleteAPIKeys ==
  { <<"nagios_up", <<>>>>, <<"nagios_version_info", <<"*">>>>,
    <<"nagios_build_info", <<Version, BuildDate, Commit>>>>,
    <<"nagios_hosts_total", <<>>>>,
    <<"nagios_hosts_checked_total", <<"active">>>>,
    <<"nagios_hosts_checked_total", <<"passive">>>>,
    <<"nagios_hosts_status_total", <<"up">>>>,
    <<"nagios_hosts_status_total", <<"down">>>>,
    <<"nagios_hosts_status_total", <<"unreachable">>>>,
    <<"nagios_hosts_status_total", <<"flapping">>>>,
    <<"nagios_hosts_downtime_total", <<>>>>,
    <<"nagios_hosts_acknowledges_total", <<>>>>,
    <<"nagios_services_total", <<>>>>,
    <<"nagios_services_checked_total", <<"active">>>>,
    <<"nagios_services_checked_total", <<"passive">>>>,
    <<"nagios_services_status_total", <<"ok">>>>,
    <<"nagios_services_status_total", <<"warn">>>>,
    <<"nagios_services_status_total", <<"critical">>>>,
    <<"nagios_services_status_total", <<"unknown">>>>,
    <<"nagios_services_status_total", <<"flapping">>>>,
    <<"nagios_services_downtime_total", <<>>>>,
    <<"nagios_services_acknowledges_total", <<>>>>,
    <<"nagios_host_checks_minutes", <<"active">>>>,
    <<"nagios_host_checks_minutes", <<"passive">>>>,
    <<"nagios_service_checks_minutes", <<"active">>>>,
    <<"nagios_service_checks_minutes", <<"passive">>>>,
    <<"nagios_users_total", <<>>>>,
    <<"nagios_users_status_total", <<"enabled">>>>,
    <<"nagios_users_status_total", <<"disabled">>>>,
    <<"nagios_users_privileges_total", <<"admin">>>>,
    <<"nagios_users_privileges_total", <<"user">>>> }
  \cup
  { <<d, <<"active", t, o>>>> :
      d \in {"nagios_host_checks_performance_seconds",
             "nagios_service_checks_performance_seconds"},
      t \in {"latency", "execution"}, o \in {"avg", "min", "max"} }

\* the call did not bring back a decodable body
FailedCall(x) == x.got \in {"garbage", "connerr", "readerr", "silent"}

----------------------------------------------------------------------------
\* C1: in API mode, when the system/status request ends in a connection
\* error or a timeout, the scrape emits nagios_up = 0 and the process keeps
\* running.  (The code calls log.Fatal in QueryAPIs: TLC finds this violated.)
C1_UnreachableYieldsUpZero ==
  \A s \in Scrapers :
    (in[s] # <<>> /\ in[s][1].call = "/system/status" /\ in[s][1].got = "connerr")
      => /\ proc = "serving"
         /\ \E x \in Range(ch[s]) : x.desc = "nagios_up" /\ x.value = 0

----------------------------------------------------------------------------
----------------------------------------------------------------------------
HostsWith(field, val) ==
  Cardinality({i \in 1..Len(wHosts) : wHosts[i][field] = val})

ServicesWith(field, val) ==
  Cardinality({i \in 1..Len(wServices) : wServices[i][field] = val})

\* C3: in API mode each status sample equals the number of walked records
\* with the matching field value: hosts up/down/unreachable count
\* current_state 0/1/2, services ok/warn/critical/unknown count current_state
\* 0/1/2/3, flapping counts is_flapping = 1, the acknowledges samples count
\* problem_has_been_acknowledged = 1.
C3_StatusCounts ==
  wpc = "done" =>
    /\ Only(wch, "nagios_hosts_status_total", <<"up">>, HostsWith("CurrentState", 0))
    /\ Only(wch, "nagios_hosts_status_total", <<"down">>, HostsWith("CurrentState", 1))
    /\ Only(wch, "nagios_hosts_status_total", <<"unreachable">>,
            HostsWith("CurrentState", 2))
    /\ Only(wch, "nagios_hosts_status_total", <<"flapping">>, HostsWith("IsFlapping", 1))
    /\ Only(wch, "nagios_hosts_acknowledges_total", <<>>,
            HostsWith("ProblemHasBeenAcknowledged", 1))
    /\ Only(wch, "nagios_services_status_total", <<"ok">>, ServicesWith("CurrentState", 0))
    /\ Only(wch, "nagios_services_status_total", <<"warn">>,
            ServicesWith("CurrentState", 1))
    /\ Only(wch, "nagios_services_status_total", <<"critical">>,
            ServicesWith("CurrentState", 2))
    /\ Only(wch, "nagios_services_status_total", <<"unknown">>,
            ServicesWith("CurrentState", 3))
    /\ Only(wch, "nagios_services_status_total", <<"flapping">>,
            ServicesWith("IsFlapping", 1))
    /\ Only(wch, "nagios_services_acknowledges_total", <<>>,
            ServicesWith("ProblemHasBeenAcknowledged", 1))

\* the samples are out for an unreachable host and an acknowledged critical
\* service
C3_Witness ==
  /\ wpc = "done" /\ Len(wHosts) = 1 /\ Len(wServices) = 1
  /\ wHosts[1].CurrentState = 2
  /\ wServices[1].CurrentState = 2 /\ wServices[1].ProblemHasBeenAcknowledged = 1

----------------------------------------------------------------------------
----------------------------------------------------------------------------
\* C5: every declared metric is served: in each mode, every descriptor that
\* Describe sent has at least one sample in every collection that runs to
\* its end.
C5_DeclaredAreServed ==
  \A s \in Scrapers :
    pc[s] = "done" =>
      \A d \in described : \E x \in Range(ch[s]) : x.desc = d

\* a collection ran to its end in nagiostats mode
C5_Witness ==
  \E s \in Scrapers : pc[s] = "done" /\ ~APIMode /\ described # {}

----------------------------------------------------------------------------
\* C6: concurrent collections are independent: a failure met by one
\* collection does not prevent the other from completing, that is, a
\* collection in flight that met no failure itself is in a running process.
\* (log.Fatal in one collection ends the process: TLC finds this violated.)
C6_FailureStaysLocal ==
  \A t \in Scrapers :
    (pc[t] # "idle" /\ fail[t] = NoFail) => proc = "serving"

----------------------------------------------------------------------------
\* the six URLs of a scrape, in order
ExpectedURLs ==
  LET key == "?apikey=" \o e.nagiosAPIKey
  IN  << e.nagiosEndpoint \o "/system/status" \o key,
         e.nagiosEndpoint \o "/system/info" \o key,
         e.nagiosEndpoint \o "/objects/hoststatus" \o key,
         e.nagiosEndpoint \o "/objects/servicestatus" \o key,
         e.nagiosEndpoint \o "/system/statusdetail" \o key,
         e.nagiosEndpoint \o "/system/user" \o key \o "&advanced=1" >>

\* C7: in API mode the requests of a scrape are a prefix of system/status,
\* system/info, objects/hoststatus, objects/servicestatus,
\* system/statusdetail, system/user (each once, in this order, none
\* repeated), a scrape that completes has issued all six, and nagios_up is
\* on the channel before any request after system/status is issued.
C7_SixRequestsInOrder ==
  \A s \in Scrapers :
    /\ Len(reqs[s]) <= 6
    /\ \A i \in 1..Len(reqs[s]) : reqs[s][i] = ExpectedURLs[i]
    /\ (APIMode /\ pc[s] = "done") => Len(reqs[s]) = 6
    /\ Len(reqs[s]) >= 2 => (ch[s] # <<>> /\ ch[s][1].desc = "nagios_up")

\* a scrape is complete after six requests
C7_Witness ==
  \E s \in Scrapers : pc[s] = "done" /\ Len(reqs[s]) = 6

----------------------------------------------------------------------------
\* C8: the two modes are exclusive and fixed at start-up: with a non-empty
\* --nagios.stats_binary no HTTP request is issued and the API-key file is
\* not read; with an empty one nagiostats is never executed; the exporter's
\* mode is the flag's in every state.
C8_ModesExclusive ==
  /\ flags.statsBinary # ""
       => (~configRead /\ \A s \in Scrapers : reqs[s] = <<>>)
  /\ flags.statsBinary = "" => \A s \in Scrapers : execs[s] = <<>>
  /\ proc = "serving" => e.nagiostatsPath = flags.statsBinary

\* a nagiostats scrape is complete, after two runs of the binary
C8_Witness ==
  \E s \in Scrapers :
    flags.statsBinary # "" /\ pc[s] = "done" /\ Len(execs[s]) = 2

----------------------------------------------------------------------------
\* C9: in nagiostats mode, when the binary cannot be executed or exits with
\* an error, the scrape logs the 'Cannot execute nagiostats' warning and
\* emits nagios_up = 0, and the process does not terminate.
\* (TestNagiosstatsBinary calls log.Fatal first: TLC finds this violated.)
C9_ProbeFailureYieldsUpZero ==
  \A s \in Scrapers :
    (in[s] # <<>> /\ in[s][1].call = ProbeCall /\ in[s][1].got = "execerr")
      => /\ proc = "serving"
         /\ "Cannot execute nagiostats: " \in logs[s]
         /\ \E x \in Range(ch[s]) : x.desc = "nagios_up" /\ x.value = 0

----------------------------------------------------------------------------
G(desc, labels) == [desc |-> desc, labels |-> labels, part |-> 0]
B(desc, labels, k) == [desc |-> desc, labels |-> labels, part |-> k]

\* the sample, and the part of it, that belongs to the fields 1..41 of the
\* MRTG list (part 0 the gauge's value, part 1, 2, 3 the bucket le=1, 5, 15)
FieldSample ==
  << G("nagios_hosts_total", <<>>),                          \* NUMHOSTS
     G("nagios_hosts_checked_total", <<"active">>),          \* NUMHSTACTCHK60M
     G("nagios_hosts_checked_total", <<"passive">>),         \* NUMHSTPSVCHK60M
     G("nagios_hosts_status_total", <<"up">>),               \* NUMHSTUP
     G("nagios_hosts_status_total", <<"down">>),             \* NUMHSTDOWN
     G("nagios_hosts_status_total", <<"unreachable">>),      \* NUMHSTUNR
     G("nagios_hosts_status_total", <<"flapping">>),         \* NUMHSTFLAPPING
     G("nagios_hosts_downtime_total", <<>>),                 \* NUMHSTDOWNTIME
     G("nagios_services_total", <<>>),                       \* NUMSERVICES
     G("nagios_services_checked_total", <<"active">>),       \* NUMSVCACTCHK60M
     G("nagios_services_checked_total", <<"passive">>),      \* NUMSVCPSVCHK60M
     G("nagios_services_status_total", <<"ok">>),            \* NUMSVCOK
     G("nagios_services_status_total", <<"warn">>),          \* NUMSVCWARN
     G("nagios_services_status_total", <<"unknown">>),       \* NUMSVCUNKN
     G("nagios_services_status_total", <<"critical">>),      \* NUMSVCCRIT
     G("nagios_services_status_total", <<"flapping">>),      \* NUMSVCFLAPPING
     G("nagios_services_downtime_total", <<>>),              \* NUMSVCDOWNTIME
     B("nagios_host_checks_minutes", <<"active">>, 1),       \* NUMHSTACTCHK1M
     B("nagios_host_checks_minutes", <<"active">>, 2),       \* NUMHSTACTCHK5M
     B("nagios_host_checks_minutes", <<"active">>, 3),       \* NUMHSTACTCHK15M
     B("nagios_host_checks_minutes", <<"passive">>, 1),      \* NUMHSTPSVCHK1M
     B("nagios_host_checks_minutes", <<"passive">>, 2),      \* NUMHSTPSVCHK5M
     B("nagios_host_checks_minutes", <<"passive">>, 3),      \* NUMHSTPSVCHK15M
     B("nagios_service_checks_minutes", <<"active">>, 1),    \* NUMSVCACTCHK1M
     B("nagios_service_checks_minutes", <<"active">>, 2),    \* NUMSVCACTCHK5M
     B("nagios_service_checks_minutes", <<"active">>, 3),    \* NUMSVCACTCHK15M
     B("nagios_service_checks_minutes", <<"passive">>, 1),   \* NUMSVCPSVCHK1M
     B("nagios_service_checks_minutes", <<"passive">>, 2),   \* NUMSVCPSVCHK5M
     B("nagios_service_checks_minutes", <<"passive">>, 3),   \* NUMSVCPSVCHK15M
     G("nagios_host_checks_performance_seconds", <<"active", "latency", "avg">>),
     G("nagios_host_checks_performance_seconds", <<"active", "latency", "min">>),
     G("nagios_host_checks_performance_seconds", <<"active", "latency", "max">>),
     G("nagios_host_checks_performance_seconds", <<"active", "execution", "avg">>),
     G("nagios_host_checks_performance_seconds", <<"active", "execution", "min">>),
     G("nagios_host_checks_performance_seconds", <<"active", "execution", "max">>),
     G("nagios_service_checks_performance_seconds", <<"active", "latency", "avg">>),
     G("nagios_service_checks_performance_seconds", <<"active", "latency", "min">>),
     G("nagios_service_checks_performance_seconds", <<"active", "latency", "max">>),
     G("nagios_service_checks_performance_seconds", <<"active", "execution", "avg">>),
     G("nagios_service_checks_performance_seconds", <<"active", "execution", "min">>),
     G("nagios_service_checks_performance_seconds", <<"active", "execution", "max">>) >>

PartOf(x, t) == IF t.part = 0 THEN x.value ELSE x.buckets[t.part]

\* C10: in nagiostats mode the output is mapped by position: field 0 is the
\* version label and, for i in 1..41, the i-th field (when it is a number) is
\* what the sample of the i-th name of the MRTG list carries.
C10_FieldsByPosition ==
  \A s \in Scrapers :
    (~APIMode /\ pc[s] = "done") =>
      LET out == in[s][2].body
      IN  /\ Len(FieldSample) = 41 /\ Len(mrtgList) = 42
          /\ \E x \in Range(ch[s]) :
               x.desc = "nagios_version_info" /\ x.labels = <<out[1]>>
          /\ \A i \in 1..41 :
               IsNumeral(out[i + 1]) =>
                 LET t == FieldSample[i]
                 IN  /\ SamplesOf(ch[s], t.desc, t.labels) # {}
                     /\ \A x \in SamplesOf(ch[s], t.desc, t.labels) :
                          ToString(PartOf(x, t)) = out[i + 1]

\* a nagiostats scrape is complete whose fields 14 and 15 differ
C10_Witness ==
  \E s \in Scrapers :
    /\ ~APIMode /\ pc[s] = "done"
    /\ in[s][2].body[15] = "14" /\ in[s][2].body[16] = "15"

----------------------------------------------------------------------------
\* the output of nagiostats is not 42 numbers after the version: a field is
\* missing or is not a number
Malformed(out) ==
  \/ Len(out) < 42
  \/ \E i \in 2..42 : ~IsNumeral(out[i])

\* C11: in nagiostats mode a malformed output of the binary (a field that is
\* not a number, or fewer than 42 fields) either terminates the process or
\* surfaces as nagios_up = 0; it never yields a completed scrape with
\* nagios_up = 1.  (ParseFloat's error is dropped and the field becomes 0:
\* TLC finds this violated.)
C11_MalformedOutputNotServed ==
  \A s \in Scrapers :
    (Len(in[s]) = 2 /\ in[s][2].call = DataCall /\ in[s][2].got = "ok"
       /\ Malformed(in[s][2].body))
      => \/ proc # "serving"
         \/ \E x \in Range(ch[s]) : x.desc = "nagios_up" /\ x.value = 0

----------------------------------------------------------------------------
HostsInDowntime ==
  Cardinality({i \in 1..Len(wHosts) : wHosts[i].ScheduledDowntimeDepth > 0})

ServicesInDowntime ==
  Cardinality({i \in 1..Len(wServices) : wServices[i].ScheduledDowntimeDepth > 0})

\* C12: in API mode nagios_hosts_downtime_total and
\* nagios_services_downtime_total equal the number of host, respectively
\* service, records whose scheduled_downtime_depth is greater than 0.
\* (The loops test depth == 1: TLC finds this violated by a depth of 2.)
C12_DowntimeCounts ==
  wpc = "done" =>
    /\ Only(wch, "nagios_hosts_downtime_total", <<>>, HostsInDowntime)
    /\ Only(wch, "nagios_services_downtime_total", <<>>, ServicesInDowntime)

(***************************************************************************)
(* The API-mode collections under the scheduling the runtime gives them: a *)
(* goroutine that can take its next step takes it (the Go scheduler runs   *)
(* every runnable goroutine, and client.Do returns when the upstream has   *)
(* answered, failed, or the Timeout has passed).  --nagios.timeout is any  *)
(* integer the flag accepts; 5 is the default and 0 sets no Timeout.       *)
(***************************************************************************)
Timeouts == {5, 0}

InitLive ==
  /\ lastScrape = NoScrape
  /\ proc = "starting"
  /\ flags \in
       { [statsBinary |-> "", remoteAddress |-> GoodAddress, sslVerify |-> FALSE,
          nagiosAPITimeout |-> t, nagiosConfigPath |-> "",
          configPath |-> "/etc/prometheus-nagios-exporter/config.toml"] :
            t \in Timeouts }
  /\ e = NoExporter
  /\ configRead = FALSE
  /\ described = {}
  /\ xi = XIWorld(1, 1, 1)
  /\ core = StatsFields("4.4.6", 0, 42) \o <<"\n">>
  /\ pc = [s \in Scrapers |-> "idle"]
  /\ ch = [s \in Scrapers |-> <<>>]
  /\ reqs = [s \in Scrapers |-> <<>>]
  /\ execs = [s \in Scrapers |-> <<>>]
  /\ in = [s \in Scrapers |-> <<>>]
  /\ loc = [s \in Scrapers |-> LocZero]
  /\ logs = [s \in Scrapers |-> {}]
  /\ fail = [s \in Scrapers |-> NoFail]
  /\ wpc = "off" /\ wHosts = <<>> /\ wServices = <<>>
  /\ wHC = HostCountersZero /\ wSC = ServiceCountersZero /\ wch = <<>>
  /\ fn = NoCall

\* the next step of the collection s, whichever it is
CollectStep(s) ==
  \/ QuerySystemInfo(s)
  \/ QueryHostStatus(s)
  \/ QueryServiceStatus(s)
  \/ QueryStatusDetail(s)
  \/ QueryUsers(s)
  \/ CollectReturn(s)

NextLive ==
  \/ Main
  \/ \E s \in Scrapers :
       \/ TestNagiosConnectivity(s)
       \/ QuerySystemInfo(s)
       \/ QueryHostStatus(s)
       \/ QueryServiceStatus(s)
       \/ QueryStatusDetail(s)
       \/ QueryUsers(s)
       \/ CollectReturn(s)

SpecLive ==
  /\ InitLive
  /\ [][NextLive]_vars
  /\ \A s \in Scrapers : WF_vars(CollectStep(s))

----------------------------------------------------------------------------
ScrapeEnded(s) == pc[s] = "idle" \/ proc # "serving"

\* C13 as stated: in API mode every request is bounded by the configured
\* timeout, so every scrape eventually ends (Collect returns or the process
\* terminates), whatever the upstream does.  (With --nagios.timeout=0 the
\* client has no Timeout and a silent upstream blocks the scrape for ever.)
C13_EveryScrapeEnds ==
  \A s \in Scrapers : (pc[s] # "idle") ~> ScrapeEnded(s)

\* C13, amended: when the configured timeout is greater than 0, every scrape
\* eventually ends, even when the upstream accepts the connection and never
\* answers.
C13_EveryScrapeEndsUnderTimeout ==
  \A s \in Scrapers :
    (pc[s] # "idle" /\ e.nagiosAPITimeout > 0) ~> ScrapeEnded(s)

\* a request to a silent upstream has run into the timeout
C13_Witness ==
  \E s \in Scrapers :
    /\ Len(in[s]) >= 2 /\ in[s][Len(in[s])].got = "silent"
    /\ e.nagiosAPITimeout > 0 /\ proc = "exited"

(***************************************************************************)
(* get_nagios_version.GetLatestNagiosXIVersion, in its two versions: the   *)
(* one that parses the page into a tree and traverses it, and the one that *)
(* reads the page token by token.  Strings are sequences of characters, a  *)
(* page is the node tree the HTML stands for: a document node over text,   *)
(* comment and element nodes.                                              *)
(***************************************************************************)
MaxChildren == 2

\* everything at rest but the function under way
AtRest ==
  /\ lastScrape = NoScrape
  /\ proc = "starting"
  /\ flags = [statsBinary |-> "", remoteAddress |-> GoodAddress, sslVerify |-> FALSE,
              nagiosAPITimeout |-> 5, nagiosConfigPath |-> "",
              configPath |-> "/etc/prometheus-nagios-exporter/config.toml"]
  /\ e = NoExporter
  /\ configRead = FALSE
  /\ described = {}
  /\ xi = XIWorld(1, 1, 1)
  /\ core = StatsFields("4.4.6", 0, 42) \o <<"\n">>
  /\ pc = [s \in Scrapers |-> "idle"]
  /\ ch = [s \in Scrapers |-> <<>>]
  /\ reqs = [s \in Scrapers |-> <<>>]
  /\ execs = [s \in Scrapers |-> <<>>]
  /\ in = [s \in Scrapers |-> <<>>]
  /\ loc = [s \in Scrapers |-> LocZero]
  /\ logs = [s \in Scrapers |-> {}]
  /\ fail = [s \in Scrapers |-> NoFail]
  /\ wpc = "off" /\ wHosts = <<>> /\ wServices = <<>>
  /\ wHC = HostCountersZero /\ wSC = ServiceCountersZero /\ wch = <<>>

\* strings.HasPrefix
HasPrefix(s, prefix) ==
  Len(s) >= Len(prefix) /\ SubSeq(s, 1, Len(prefix)) = prefix

XiPrefix == <<"x", "i", "-">>

\* The pages: a document node over at most MaxChildren nodes, each a text, a
\* comment or an element around at most one text or comment.  The texts are
\* versions, a version after a blank, "xi" alone, a size.  The parser merges
\* adjacent texts, so no two texts are neighbours.
Pages ==
  LET Node(type, data, children) ==
        [Type |-> type, Data |-> data, Children |-> children]
      texts == { <<"x", "i", "-", "3">>, <<"x", "i", "-", "2">>,
                 <<" ", "x", "i", "-", "3">>, <<"x", "i">>, <<"7", "M">> }
      leaves == {Node("TextNode", t, <<>>) : t \in texts}
                  \cup {Node("CommentNode", <<"x", "i", "-", "9">>, <<>>)}
      elements == {Node("ElementNode", <<"t", "d">>, <<>>)}
                    \cup {Node("ElementNode", <<"t", "d">>, <<l>>) : l \in leaves}
      lists == UNION {[1..n -> leaves \cup elements] : n \in 0..MaxChildren}
      NoTextNeighbours(l) ==
        \A i \in 1..(Len(l) - 1) :
          ~(l[i].Type = "TextNode" /\ l[i + 1].Type = "TextNode")
  IN  {Node("DocumentNode", <<>>, l) : l \in {k \in lists : NoTextNeighbours(k)}}

\* Faulty variant of traverse: a later match wins over an earlier one.
RECURSIVE traverseKeepingLast(_)
traverseKeepingLast(node) ==
  LET results == [i \in 1..Len(node.Children) |-> traverseKeepingLast(node.Children[i])]
      found == {i \in 1..Len(results) : results[i] # <<>>}
  IN  IF found # {}
        THEN results[CHOOSE i \in found : \A j \in found : j <= i]
      ELSE IF node.Type = "TextNode" /\ HasPrefix(node.Data, XiPrefix) THEN node.Data
      ELSE <<>>

\* `traverse = func(node *html.Node) string`: "" is the empty sequence
RECURSIVE traverse(_)
traverse(node) ==
  IF node.Type = "TextNode" /\ HasPrefix(node.Data, XiPrefix) THEN node.Data
  ELSE LET results == [i \in 1..Len(node.Children) |-> traverse(node.Children[i])]
           found == {i \in 1..Len(results) : results[i] # <<>>}
       IN  IF found = {} THEN <<>>
           ELSE results[CHOOSE i \in found : \A j \in found : i <= j]

\* what html.NewTokenizer yields for the page, token by token
RECURSIVE Tokens(_)
RECURSIVE TokensOfAll(_)
Tokens(node) ==
  CASE node.Type = "TextNode" -> << [Type |-> "TextToken", Data |-> node.Data] >>
    [] node.Type = "CommentNode" -> << [Type |-> "CommentToken", Data |-> node.Data] >>
    [] node.Type = "ElementNode" ->
         << [Type |-> "StartTagToken", Data |-> node.Data] >>
           \o TokensOfAll(node.Children)
           \o << [Type |-> "EndTagToken", Data |-> node.Data] >>
    [] OTHER -> TokensOfAll(node.Children)

TokensOfAll(nodes) ==
  IF nodes = <<>> THEN <<>> ELSE Tokens(Head(nodes)) \o TokensOfAll(Tail(nodes))

InitVersion ==
  /\ AtRest
  /\ fn \in [op : {"GetLatestNagiosXIVersion"}, impl : {"Parse", "Tokenizer"},
             page : Pages, pc : {"Get"}, got : {<<>>}, tokens : {<<>>},
             version : {<<>>}, err : {FALSE}]

Return(version, err, got) ==
  fn' = [fn EXCEPT !.pc = "returned", !.version = version, !.err = err,
                   !.got = Append(@, got)]

\* `resp, err := http.Get(NagiosXIURL)`, and the error return of either version
VersionGet ==
  /\ fn.op = "GetLatestNagiosXIVersion" /\ fn.pc = "Get"
  /\ \E got \in {"ok", "err"} :
       IF got = "err" THEN Return(<<>>, TRUE, got)
       ELSE fn' = [fn EXCEPT !.pc = fn.impl, !.got = Append(@, got)]
  /\ UNCHANGED <<progVars, walkVars>>

\* html.Parse and the traversal of the tree
VersionParse ==
  /\ fn.op = "GetLatestNagiosXIVersion" /\ fn.pc = "Parse"
  /\ \E got \in {"ok", "err"} :
       IF got = "err" THEN Return(<<>>, TRUE, got)
       ELSE Return(traverse(fn.page), FALSE, got)
  /\ UNCHANGED <<progVars, walkVars>>

\* io.ReadAll and html.NewTokenizer
VersionRead ==
  /\ fn.op = "GetLatestNagiosXIVersion" /\ fn.pc = "Tokenizer"
  /\ \E got \in {"ok", "err"} :
       IF got = "err" THEN Return(<<>>, TRUE, got)
       ELSE fn' = [fn EXCEPT !.pc = "Next", !.tokens = Tokens(fn.page),
                             !.got = Append(@, got)]
  /\ UNCHANGED <<progVars, walkVars>>

\* one turn of `for { tokenType := tokenizer.Next() ... }`; err is ReadAll's,
\* nil here
VersionNext ==
  /\ fn.op = "GetLatestNagiosXIVersion" /\ fn.pc = "Next"
  /\ IF fn.tokens = <<>> THEN Return(<<>>, fn.err, "ErrorToken")
     ELSE LET token == Head(fn.tokens)
          IN  IF token.Type = "TextToken" /\ HasPrefix(token.Data, XiPrefix)
                THEN Return(token.Data, FALSE, "TextToken")
                ELSE fn' = [fn EXCEPT !.tokens = Tail(@)]
  /\ UNCHANGED <<progVars, walkVars>>

NextVersion == VersionGet \/ VersionParse \/ VersionRead \/ VersionNext

SpecVersion == InitVersion /\ [][NextVersion]_vars

----------------------------------------------------------------------------
\* the texts of a page, in document order
RECURSIVE TextsOf(_)
TextsOf(node) ==
  IF node.Type = "TextNode" THEN <<node.Data>>
  ELSE IF node.Children = <<>> THEN <<>>
  ELSE TextsOf(Head(node.Children))
         \o TextsOf([node EXCEPT !.Children = Tail(@)])

XiTexts(page) == SelectSeq(TextsOf(page), LAMBDA t : HasPrefix(t, XiPrefix))

PageObtained == \A i \in 1..Len(fn.got) : fn.got[i] # "err"

\* C14: for every page that contains at least one text beginning with
\* "xi-", GetLatestNagiosXIVersion returns the first such text in document
\* order, together with a nil error.
C14_FirstVersionInDocumentOrder ==
  (fn.op = "GetLatestNagiosXIVersion" /\ fn.pc = "returned" /\ PageObtained
     /\ XiTexts(fn.page) # <<>>)
    => (fn.version = XiTexts(fn.page)[1] /\ ~fn.err)

\* returned from a page that lists xi-3 before xi-2, after another text
C14_Witness ==
  /\ fn.op = "GetLatestNagiosXIVersion" /\ fn.pc = "returned" /\ PageObtained
  /\ Len(XiTexts(fn.page)) = 2
  /\ XiTexts(fn.page)[1] = <<"x", "i", "-", "3">>
  /\ XiTexts(fn.page)[2] = <<"x", "i", "-", "2">>
  /\ fn.version = <<"x", "i", "-", "3">>

(***************************************************************************)
(* The first version of the exporter (src/main.go): one collection, call   *)
(* by call.  The server answers each request with the JSON of the path     *)
(* requested; json.Unmarshal leaves at zero the fields a body does not     *)
(* hold.  The two record loops count as the loops of the later version do  *)
(* (HostStep, ServiceStep), which only added counters.                     *)
(***************************************************************************)
\* the answers of one server: its hosts and its services
MainGoServers ==
  LET hosts == {HostJSON(ct, cs, "0", "0", "0") : ct \in {"0", "1"}, cs \in {"0", "1"}}
      services == {ServiceJSON("1", "1", ct, cs, "0", "0", "0") :
                     ct \in {"0", "1"}, cs \in {"0", "1", "2"}}
      lists(S) == UNION {[1..n -> S] : n \in 0..MaxRecords}
  IN  {[status |-> [is_currently_running |-> "1"], info |-> [version |-> "5.8.10"],
        hoststatus |-> [recordcount |-> Len(h), hoststatus |-> h],
        servicestatus |-> [recordcount |-> Len(s), servicestatus |-> s]] :
          h \in lists(hosts), s \in lists(services)}

\* the body the server sends for a path
MainGoAnswer(server, path) ==
  CASE path = systemstatusAPI -> server.status
    [] path = systeminfoAPI -> server.info
    [] path = hoststatusAPI -> server.hoststatus
    [] path = servicestatusAPI -> server.servicestatus

\* a field of the decoded struct: the body's, or the zero value
MainGoField(body, field, zero) ==
  IF field \in DOMAIN body THEN body[field] ELSE zero

InitMainGo ==
  /\ AtRest
  /\ fn \in [op : {"main.go"}, server : MainGoServers, pc : {"status"}, ch : {<<>>},
             reqs : {<<>>}, hostsPassiveCheckCount : {0}]

\* QueryAPIs of src/main.go and the json.Unmarshal that follows each call: a
\* failed client.Do is only logged and the nil response is dereferenced (a
\* panic); a body that is no JSON is fatal
MainGoCall(path, next, emit, passive) ==
  /\ fn.op = "main.go"
  /\ \E got \in {"ok", "garbage", "connerr"} :
       fn' = [fn EXCEPT !.reqs = Append(@, path),
                        !.pc = CASE got = "ok" -> next
                                 [] got = "garbage" -> "exited"
                                 [] got = "connerr" -> "panicked",
                        !.ch = IF got = "ok" THEN @ \o emit ELSE @,
                        !.hostsPassiveCheckCount = IF got = "ok" THEN passive ELSE @]
  /\ UNCHANGED <<progVars, walkVars>>

MainGoTestNagiosConnectivity ==
  /\ fn.pc = "status"
  /\ LET body == MainGoAnswer(fn.server, systemstatusAPI)
         nagiosStatus == UnmarshalField(body.is_currently_running).val
     IN  MainGoCall(systemstatusAPI, "info",
                    << MustNewConstMetric(up, nagiosStatus, <<>>) >>, 0)

MainGoSystemInfo ==
  /\ fn.pc = "info"
  /\ LET body == MainGoAnswer(fn.server, systeminfoAPI)
     IN  MainGoCall(systeminfoAPI, "hoststatus",
                    << MustNewConstMetric(versionInfo, 1,
                                          <<MainGoField(body, "version", "")>>) >>, 0)

\* `hoststatusURL := e.nagiosEndpoint + systeminfoAPI + "?apikey=" + ...`
MainGoHostStatus ==
  /\ fn.pc = "hoststatus"
  /\ LET body == MainGoAnswer(fn.server, systeminfoAPI)
         Recordcount == MainGoField(body, "recordcount", 0)
         records == MainGoField(body, "hoststatus", <<>>)
         Hoststatus == [i \in 1..Len(records) |-> DecodeHost(records[i])]
         c == HostWalk(HostCountersZero, Hoststatus)
         G1(name, v) == MustNewConstMetric(BuildFQName(name), v, <<>>)
     IN  MainGoCall(systeminfoAPI, "servicestatus",
           << G1("hosts_total", Recordcount),
              G1("hosts_actively_checked_total", c.hostsActiveCheckCount),
              G1("hosts_passively_checked_total", c.hostsPassiveCheckCount),
              G1("hosts_up_total", c.hostsUpCount),
              G1("hosts_down_total", c.hostsDownCount),
              G1("hosts_unreachable_total", c.hostsUnreachableCount),
              G1("hosts_flapping_total", c.hostsFlapCount),
              G1("hosts_downtime_total", c.hostsDowntimeCount) >>,
           c.hostsPassiveCheckCount)

MainGoServiceStatus ==
  /\ fn.pc = "servicestatus"
  /\ LET body == MainGoAnswer(fn.server, servicestatusAPI)
         Recordcount == MainGoField(body, "recordcount", 0)
         records == MainGoField(body, "servicestatus", <<>>)
         Servicestatus == [i \in 1..Len(records) |-> DecodeService(records[i])]
         c == ServiceWalk(ServiceCountersZero, Servicestatus)
         G1(name, v) == MustNewConstMetric(BuildFQName(name), v, <<>>)
     IN  MainGoCall(servicestatusAPI, "done",
           << G1("services_total", Recordcount),
              G1("services_actively_checked_total", c.servicesActiveCheckCount),
              G1("services_passively_checked_total", fn.hostsPassiveCheckCount),
              G1("services_ok_total", c.servicesOkCount),
              G1("services_warn_total", c.servicesWarnCount),
              G1("services_critical_total", c.servicesWarnCount),
              G1("services_unknown_total", c.servicesUnknownCount),
              G1("services_flapping_total", c.servicesFlapCount),
              G1("services_downtime_total", c.servicesDowntimeCount) >>,
           fn.hostsPassiveCheckCount)

NextMainGo ==
  \/ MainGoTestNagiosConnectivity
  \/ MainGoSystemInfo
  \/ MainGoHostStatus
  \/ MainGoServiceStatus

SpecMainGo == InitMainGo /\ [][NextMainGo]_vars

----------------------------------------------------------------------------
MainGoDone == fn.op = "main.go" /\ fn.pc = "done"

MainGoServices(field, values) ==
  Cardinality({i \in 1..Len(fn.server.servicestatus.servicestatus) :
                 fn.server.servicestatus.servicestatus[i][field] \in values})

MainGoHosts(field, values) ==
  Cardinality({i \in 1..Len(fn.server.hoststatus.hoststatus) :
                 fn.server.hoststatus.hoststatus[i][field] \in values})

\* C15: in src/main.go, nagios_services_critical_total equals the number of
\* service records whose current_state is 2.  (The sample is built from
\* servicesWarnCount: TLC finds this violated.)
C15_CriticalCountsCritical ==
  MainGoDone =>
    Only(fn.ch, "nagios_services_critical_total", <<>>,
         MainGoServices("current_state", {"2"}))

\* C16: in src/main.go, nagios_services_passively_checked_total equals the
\* number of service records whose check_type is not 0, whatever the host
\* records are.  (The sample is built from hostsPassiveCheckCount: TLC
\* finds this violated.)
C16_PassiveCountsServices ==
  MainGoDone =>
    Only(fn.ch, "nagios_services_passively_checked_total", <<>>,
         MainGoServices("check_type", {"1"}))

\* C17: in src/main.go, the host samples are computed from the response of
\* objects/hoststatus: the scrape requests objects/hoststatus and the host
\* samples count its records.  (The URL is built from systeminfoAPI: TLC
\* finds this violated.)
C17_HostsFromHoststatus ==
  MainGoDone =>
    /\ \E i \in 1..Len(fn.reqs) : fn.reqs[i] = "/objects/hoststatus"
    /\ Only(fn.ch, "nagios_hosts_total", <<>>, fn.server.hoststatus.recordcount)
    /\ Only(fn.ch, "nagios_hosts_actively_checked_total", <<>>,
            MainGoHosts("check_type", {"0"}))
    /\ Only(fn.ch, "nagios_hosts_passively_checked_total", <<>>,
            MainGoHosts("check_type", {"1"}))
    /\ Only(fn.ch, "nagios_hosts_up_total", <<>>, MainGoHosts("current_state", {"0"}))
    /\ Only(fn.ch, "nagios_hosts_down_total", <<>>, MainGoHosts("current_state", {"1"}))

(***************************************************************************)
(* The log formatter (nagiosFormatter.Format): texts are sequences of      *)
(* characters.  The embedded logrus TextFormatter renders the entry as     *)
(* `time=... level=... msg=...` and a newline, quoting a value that holds  *)
(* a character outside [a-zA-Z0-9-._/@^+]; Format then replaces the key    *)
(* and trims the result with the key as the cutset.                        *)
(***************************************************************************)
MaxKeyLen == 2
MaxMessageLen == 3

Redacted == <<"<", "r", "e", "d", "a", "c", "t", "e", "d", "A", "P", "I", "K", "e", "y", ">">>

\* strings.Replace(s, old, new, 1): the first occurrence only
RECURSIVE ReplaceOnce(_, _, _)
ReplaceOnce(s, old, new) ==
  IF old = <<>> THEN new \o s
  ELSE IF Len(s) < Len(old) THEN s
  ELSE IF HasPrefix(s, old) THEN new \o SubSeq(s, Len(old) + 1, Len(s))
  ELSE <<s[1]>> \o ReplaceOnce(SubSeq(s, 2, Len(s)), old, new)

\* strings.ReplaceAll(s, old, new): the occurrences of old are replaced from
\* the left, without overlap; an empty old matches before every character
\* and at the end
RECURSIVE ReplaceAll(_, _, _)
ReplaceAll(s, old, new) ==
  IF old = <<>>
    THEN IF s = <<>> THEN new
         ELSE new \o <<s[1]>> \o ReplaceAll(SubSeq(s, 2, Len(s)), old, new)
  ELSE IF Len(s) < Len(old) THEN s
  ELSE IF HasPrefix(s, old)
    THEN new \o ReplaceAll(SubSeq(s, Len(old) + 1, Len(s)), old, new)
  ELSE <<s[1]>> \o ReplaceAll(SubSeq(s, 2, Len(s)), old, new)

\* bytes.Trim(s, cutset): the leading and trailing characters of the cutset
\* are removed
Trim(s, cutset) ==
  LET kept == {i \in 1..Len(s) : s[i] \notin cutset}
      first == CHOOSE i \in kept : \A j \in kept : i <= j
      last == CHOOSE i \in kept : \A j \in kept : j <= i
  IN  IF kept = {} THEN <<>> ELSE SubSeq(s, first, last)

\* TextFormatter.Format(entry) of logrus, not coloured: time, level and, when
\* there is one, the message; a value is quoted (%q) when it holds a
\* character outside [a-zA-Z0-9-._/@^+]
TextFormatterFormat(entry) ==
  LET needsQuoting(text) ==
        \E i \in 1..Len(text) : text[i] \in {"=", "<", ">", ":", " ", "\"", "\\"}
      RECURSIVE Escaped(_)
      Escaped(text) ==
        IF text = <<>> THEN <<>>
        ELSE (IF text[1] \in {"\"", "\\"} THEN <<"\\", text[1]>> ELSE <<text[1]>>)
             \o Escaped(SubSeq(text, 2, Len(text)))
      appendValue(text) ==
        IF needsQuoting(text) THEN <<"\"">> \o Escaped(text) \o <<"\"">> ELSE text
  IN  <<"t", "i", "m", "e", "=">> \o appendValue(entry.Time)
      \o <<" ", "l", "e", "v", "e", "l", "=">> \o appendValue(entry.Level)
      \o (IF entry.Message = <<>> THEN <<>>
          ELSE <<" ", "m", "s", "g", "=">> \o appendValue(entry.Message))
      \o <<"\n">>

\* the formatter is installed with the key of the configuration (empty when
\* the file names none), and an entry is logged
InitFormat ==
  LET LogChars == {"t", "e", "=", "<"}
      Texts(n) == UNION {[1..m -> LogChars] : m \in 0..n}
  IN  /\ AtRest
      /\ fn \in [op : {"Format"}, APIKey : Texts(MaxKeyLen),
                 entry : [Time : {<<"0", ":", "0">>},
                          Level : {<<"i", "n", "f", "o">>},
                          Message : Texts(MaxMessageLen)],
                 pc : {"TextFormatter"}, log : {<<>>}, out : {<<>>}]

\* log, newEntry := f.TextFormatter.Format(entry)
FormatText ==
  /\ fn.op = "Format" /\ fn.pc = "TextFormatter"
  /\ fn' = [fn EXCEPT !.pc = "ReplaceAll", !.log = TextFormatterFormat(fn.entry)]
  /\ UNCHANGED <<progVars, walkVars>>

\* cleanString := strings.ReplaceAll(logString, f.APIKey, "<redactedAPIKey>")
FormatReplaceAll ==
  /\ fn.op = "Format" /\ fn.pc = "ReplaceAll"
  /\ fn' = [fn EXCEPT !.pc = "Trim", !.log = ReplaceAll(fn.log, fn.APIKey, Redacted)]
  /\ UNCHANGED <<progVars, walkVars>>

\* return bytes.Trim(cleanLog, f.APIKey), newEntry
FormatTrim ==
  /\ fn.op = "Format" /\ fn.pc = "Trim"
  /\ fn' = [fn EXCEPT !.pc = "done", !.out = Trim(fn.log, Range(fn.APIKey))]
  /\ UNCHANGED <<progVars, walkVars>>

NextFormat ==
  \/ FormatText
  \/ FormatReplaceAll
  \/ FormatTrim

SpecFormat == InitFormat /\ [][NextFormat]_vars

----------------------------------------------------------------------------
\* sub occurs in s
Contains(s, sub) ==
  \E i \in 0..(Len(s) - Len(sub)) : SubSeq(s, i + 1, i + Len(sub)) = sub

\* a key that is no part of the placeholder and holds neither of its
\* brackets
OrdinaryKey(key) ==
  /\ key # <<>>
  /\ ~Contains(Redacted, key)
  /\ \A i \in 1..Len(key) : key[i] \notin {"<", ">"}

\* C18 as stated: for every log entry and every non-empty API key, the bytes
\* that Format returns do not contain the key.  (A key that is a part of
\* the placeholder is found in the placeholder that replaced it.)
C18_FormatHidesKey ==
  (fn.op = "Format" /\ fn.pc = "done" /\ fn.APIKey # <<>>)
    => ~Contains(fn.out, fn.APIKey)

\* C18, amended: for every log entry and every non-empty API key that is no
\* part of the placeholder "<redactedAPIKey>" and holds neither "<" nor ">",
\* the bytes that Format returns do not contain the key.
C18_FormatHidesOrdinaryKey ==
  (fn.op = "Format" /\ fn.pc = "done" /\ OrdinaryKey(fn.APIKey))
    => ~Contains(fn.out, fn.APIKey)

\* an entry whose text held such a key twice has been formatted
C18_Witness ==
  /\ fn.op = "Format" /\ fn.pc = "done" /\ OrdinaryKey(fn.APIKey)
  /\ Contains(fn.entry.Message, fn.APIKey \o fn.APIKey)
  /\ Contains(fn.out, Redacted \o Redacted)
  /\ ~Contains(fn.out, fn.APIKey)

(***************************************************************************)
(* sanitizeAPIKeyErrors: the message of an error of the HTTP client is     *)
(* rewritten by a regular expression: "apikey=" and every character that   *)
(* follows it on the line (the dot does not match the newline).            *)
(***************************************************************************)
MaxTextLen == 2

ApikeyEq == <<"a", "p", "i", "k", "e", "y", "=">>

\* a regular expression that takes one character after "apikey=":
\* (apikey=)(.)
RECURSIVE sanitizeOneCharacter(_)
sanitizeOneCharacter(text) ==
  IF Len(text) < Len(ApikeyEq) THEN text
  ELSE IF HasPrefix(text, ApikeyEq)
    THEN LET rest == SubSeq(text, Len(ApikeyEq) + 1, Len(text))
         IN  IF rest = <<>> \/ rest[1] = "\n"
               THEN ApikeyEq \o sanitizeOneCharacter(rest)
               ELSE ApikeyEq \o Redacted
                    \o sanitizeOneCharacter(SubSeq(rest, 2, Len(rest)))
  ELSE <<text[1]>> \o sanitizeOneCharacter(SubSeq(text, 2, Len(text)))

\* re.ReplaceAllString(err.Error(), "${1}<redactedAPIKey>"): each match, from
\* the left, is "apikey=" and what follows it up to the end of the line
RECURSIVE sanitizeAPIKeyErrors(_)
sanitizeAPIKeyErrors(text) ==
  IF Len(text) < Len(ApikeyEq) THEN text
  ELSE IF HasPrefix(text, ApikeyEq)
    THEN LET rest == SubSeq(text, Len(ApikeyEq) + 1, Len(text))
             newlines == {i \in 1..Len(rest) : rest[i] = "\n"}
             end == IF newlines = {} THEN Len(rest) + 1
                    ELSE CHOOSE i \in newlines : \A j \in newlines : i <= j
         IN  ApikeyEq \o Redacted
             \o sanitizeAPIKeyErrors(SubSeq(rest, end, Len(rest)))
  ELSE <<text[1]>> \o sanitizeAPIKeyErrors(SubSeq(text, 2, Len(text)))

\* the errors of QueryAPIs: a message that names the request URL, which ends
\* with "apikey=" and the key, or a message that does not
InitSanitize ==
  LET texts(chars, n) == UNION {[1..m -> chars] : m \in 0..n}
  IN  /\ AtRest
      /\ \E before \in texts({"a", "?"}, MaxTextLen),
            key \in texts({"k", "a", "<"}, MaxTextLen) \ {<<>>},
            after \in texts({":", "\n", "k"}, MaxTextLen),
            url \in BOOLEAN :
           fn = [op |-> "sanitizeAPIKeyErrors", key |-> key,
                 err |-> IF url THEN before \o ApikeyEq \o key \o after
                         ELSE before \o key \o after,
                 pc |-> "call", out |-> <<>>]

\* return errors.New(sanitizedString)
Sanitize ==
  /\ fn.op = "sanitizeAPIKeyErrors" /\ fn.pc = "call"
  /\ fn' = [fn EXCEPT !.pc = "done", !.out = sanitizeAPIKeyErrors(fn.err)]
  /\ UNCHANGED <<progVars, walkVars>>

SpecSanitize == InitSanitize /\ [][Sanitize]_vars

----------------------------------------------------------------------------
Sanitized == fn.op = "sanitizeAPIKeyErrors" /\ fn.pc = "done"

\* where the first "apikey=" of the text ends (0: there is none)
KeptUpTo(text) ==
  LET starts == {i \in 0..(Len(text) - Len(ApikeyEq)) :
                   SubSeq(text, i + 1, i + Len(ApikeyEq)) = ApikeyEq}
  IN  IF starts = {} THEN 0
      ELSE Len(ApikeyEq) + CHOOSE i \in starts : \A j \in starts : i <= j

\* the lines that follow the line of the first "apikey="
LinesAfter(text) ==
  LET newlines == {i \in (KeptUpTo(text) + 1)..Len(text) : text[i] = "\n"}
  IN  IF newlines = {} THEN <<>>
      ELSE SubSeq(text, CHOOSE i \in newlines : \A j \in newlines : i <= j, Len(text))

\* the text up to and including "apikey=" is kept and the rest of the line
\* is replaced; a message without "apikey=" is returned as it is
KeepsAndReplaces ==
  LET kept == SubSeq(fn.err, 1, KeptUpTo(fn.err))
      after == SubSeq(fn.out, Len(kept) + Len(Redacted) + 1, Len(fn.out))
  IN  IF KeptUpTo(fn.err) = 0 THEN fn.out = fn.err
      ELSE /\ HasPrefix(fn.out, kept \o Redacted)
           /\ after = <<>> \/ after[1] = "\n"
           /\ LinesAfter(fn.err) = <<>> => after = <<>>

\* C19 as stated: the returned message does not contain the key of the
\* request URL, keeps the text up to and including "apikey=", replaces the
\* rest of that line, and a message without "apikey=" is returned as it is.
\* (A key that also occurs in the kept text, such as "a", is still there.)
C19_SanitizeScrubsKey ==
  Sanitized =>
    /\ KeepsAndReplaces
    /\ KeptUpTo(fn.err) > 0 => ~Contains(fn.out, fn.key)

\* C19, amended: as stated, the key being absent from the returned message
\* when it occurs neither in the kept text, nor in the placeholder, nor in
\* the lines after the URL's, and holds neither "<" nor ">".
C19_SanitizeScrubsOrdinaryKey ==
  Sanitized =>
    /\ KeepsAndReplaces
    /\ ( /\ KeptUpTo(fn.err) > 0
         /\ OrdinaryKey(fn.key)
         /\ ~Contains(SubSeq(fn.err, 1, KeptUpTo(fn.err)), fn.key)
         /\ ~Contains(LinesAfter(fn.err), fn.key) )
       => ~Contains(fn.out, fn.key)

\* an error naming a URL with a key of two characters, followed by the
\* cause, has been rewritten
C19_Witness ==
  /\ Sanitized
  /\ fn.key = <<"k", "k">>
  /\ fn.err = <<"?">> \o ApikeyEq \o fn.key \o <<":">>
  /\ fn.out = <<"?">> \o ApikeyEq \o Redacted

----------------------------------------------------------------------------
\* C20: when --nagios.config_path is not given (main starts from the flags'
\* defaults), nagiostats is run with the documented default path
\* /usr/local/nagios/etc/nagios.cfg as the argument of -c, in the probe and
\* in the data invocation.  (The flag's default is the empty string: TLC
\* finds this violated.)
C20_DocumentedDefaultConfigPath ==
  \A s \in Scrapers : \A i \in 1..Len(execs[s]) :
    execs[s][i].call \in {ProbeCall, DataCall}
      => /\ execs[s][i].argv[2] = "-c"
         /\ execs[s][i].argv[3] = "/usr/local/nagios/etc/nagios.cfg"

----------------------------------------------------------------------------
\* C21: no undeclared metric is emitted: in each mode, every sample that a
\* collection emits uses a descriptor that Describe sent for that mode.
\* (In nagiostats mode UpdateCommonMetrics emits the checked totals of hosts
\* and services, which Describe sends in API mode only: TLC finds this
\* violated.)
C21_OnlyDeclaredAreEmitted ==
  \A s \in Scrapers : \A i \in 1..Len(ch[s]) : ch[s][i].desc \in described

----------------------------------------------------------------------------
\* the scrape's system/status request was answered with valid JSON that says
\* is_currently_running = 0 or does not hold the field
StatusZero(s) ==
  /\ in[s] # <<>>
  /\ in[s][1].call = "/system/status" /\ in[s][1].got = "ok"
  /\ in[s][1].body.is_currently_running \in {"0", Absent}

\* C22: in API mode, when system/status answers valid JSON with
\* is_currently_running = 0 or without that field, the collection logs the
\* warning and emits nagios_up = 0 first, goes on to the system/info request,
\* and a collection that reaches its end has issued the six requests and
\* emitted the complete sample set.
C22_ZeroDoesNotStopTheScrape ==
  \A s \in Scrapers :
    StatusZero(s) =>
      /\ "Cannot connect to Nagios endpoint" \in logs[s]
      /\ ch[s] # <<>> /\ ch[s][1].desc = "nagios_up" /\ ch[s][1].value = 0
      /\ Len(in[s]) = 1 => pc[s] = "info"
      /\ pc[s] = "done" => /\ Len(reqs[s]) = 6
                           /\ \A i \in 1..6 : reqs[s][i] = ExpectedURLs[i]
                           /\ Keys(ch[s]) = CompleteAPIKeys

\* a collection whose system/status answer held no is_currently_running has
\* reached its end
C22_Witness ==
  \E s \in Scrapers :
    /\ StatusZero(s) /\ in[s][1].body.is_currently_running = Absent
    /\ pc[s] = "done" /\ Len(ch[s]) > 1

----------------------------------------------------------------------------
\* C23: within one collection no sample is emitted twice: in both modes, no
\* two samples on the channel of one collection have the same metric name
\* and the same label values.
C23_NoSampleTwice ==
  \A s \in Scrapers : \A i, j \in 1..Len(ch[s]) :
    (ch[s][i].desc = ch[s][j].desc /\ ch[s][i].labels = ch[s][j].labels) => i = j

\* a collection in nagiostats mode has emitted all its samples, each with a
\* name and label values of its own
C23_Witness ==
  \E s \in Scrapers :
    /\ pc[s] = "done" /\ ~APIMode
    /\ Len(ch[s]) > 30
    /\ Cardinality({<<ch[s][i].desc, ch[s][i].labels>> : i \in 1..Len(ch[s])}) = Len(ch[s])

(***************************************************************************)
(* UpdateCommonMetrics on its own: the arguments are what the caller       *)
(* decoded, here every number zero but the three check rates (1, 5 and 15  *)
(* minutes) of one of the four histograms.                                 *)
(***************************************************************************)
MaxRate == 3

InitHistogram ==
  /\ AtRest
  /\ \E k \in 0..3, val1, val5, val15 \in 0..MaxRate :
       fn = [op |-> "UpdateCommonMetrics",
             a |-> [i \in 1..41 |-> CASE i = 18 + 3 * k -> val1
                                      [] i = 19 + 3 * k -> val5
                                      [] i = 20 + 3 * k -> val15
                                      [] OTHER -> 0],
             pc |-> "call", ch |-> <<>>]

\* e.UpdateCommonMetrics(ch, ...)
CallUpdateCommonMetrics ==
  /\ fn.op = "UpdateCommonMetrics" /\ fn.pc = "call"
  /\ fn' = [fn EXCEPT !.pc = "done", !.ch = UpdateCommonMetrics(fn.a)]
  /\ UNCHANGED <<progVars, walkVars>>

SpecHistogram == InitHistogram /\ [][CallUpdateCommonMetrics]_vars

----------------------------------------------------------------------------
\* C24: each of the four check-rate histograms is a well-formed cumulative
\* histogram for every triple of non-negative integers: the bucket counts do
\* not decrease with the bound (le=1 <= le=5 <= le=15) and the sample count,
\* val1 + val5 + val15, is at least the count of the le=15 bucket.  (The
\* three values are copied into the buckets as they come: with val1 > val5
\* TLC finds this violated.)
C24_HistogramsAreCumulative ==
  (fn.op = "UpdateCommonMetrics" /\ fn.pc = "done") =>
    /\ Cardinality({i \in 1..Len(fn.ch) : fn.ch[i].kind = "histogram"}) = 4
    /\ \A i \in 1..Len(fn.ch) :
         fn.ch[i].kind = "histogram" =>
           /\ fn.ch[i].buckets[1] <= fn.ch[i].buckets[2]
           /\ fn.ch[i].buckets[2] <= fn.ch[i].buckets[3]
           /\ fn.ch[i].buckets[3] <= fn.ch[i].count
           /\ fn.ch[i].count = fn.ch[i].buckets[1] + fn.ch[i].buckets[2] + fn.ch[i].buckets[3]
           /\ fn.ch[i].value = fn.ch[i].count

----------------------------------------------------------------------------
\* C25: Format changes the line of the text formatter only by replacing the
\* occurrences of the API key with "<redactedAPIKey>": the result is the
\* line with the key replaced, and a line in which the key does not occur,
\* or any line when the key is empty, is returned byte for byte.  (The empty
\* key is replaced before every character, and bytes.Trim takes the
\* characters of the key off the ends of the line: TLC finds this violated.)
C25_FormatOnlyReplacesKey ==
  (fn.op = "Format" /\ fn.pc = "done") =>
    LET line == TextFormatterFormat(fn.entry)
    IN  /\ (fn.APIKey = <<>> \/ ~Contains(line, fn.APIKey)) => fn.out = line
        /\ fn.APIKey # <<>> => fn.out = ReplaceAll(line, fn.APIKey, Redacted)

====
